---- MODULE Spec2Model ----
(***************************************************************************)
(* Model of the agent-replay trace engine: the SQLite store (schema v1),   *)
(* the trace repository (services/trace-service), the fork engine          *)
(* (services/fork-service), the evaluators (services/eval-service), the    *)
(* guardrail policies (services/guard-service), the trace diff             *)
(* (services/diff-service) and the demo seed (demo/seed-data).             *)
(*                                                                         *)
(* Tables are sets of rows.  A nullable column holds NULL (the empty       *)
(* tuple) or a one-element tuple <<v>>.  An id is a prefix followed by a   *)
(* suffix that stands for the random nanoid part: for traces the text of   *)
(* a counter (or, under SpecGet, a text over a small alphabet), and the    *)
(* owning trace with a per-trace sequence number for steps, snapshots and  *)
(* verdicts, so that a minted id is always new.  Of the columns of         *)
(* agent_traces the model keeps id, agent_name, status, input, error,      *)
(* parent_trace_id and forked_from_step; timestamps are not kept.          *)
(* Scores, weights and thresholds are integers in thousandths.             *)
(*                                                                         *)
(* Each repository function is an operator from the store and the call's   *)
(* arguments to the call's outcome: whether it returned, the error it      *)
(* threw, the value it returned, and the store it leaves.  The actions     *)
(* apply these operators; the properties evaluate them on every reachable  *)
(* store.  A call that throws leaves behind the store its outcome names:   *)
(* the store as it was, or, for a call that writes outside a transaction,  *)
(* the store with the writes made before the throw.  getTrace is the set   *)
(* of the values the call may return.  runAiEval, the one asynchronous     *)
(* call, is split at its await into runAiEvalBegin and runAiEvalResume.    *)
(* A text that the code looks inside (a step name under a guardrail        *)
(* pattern, an id under LIKE) is the sequence of its characters.           *)
(*                                                                         *)
(* Specifications: Spec (ingest, append, update, fork on any trace),       *)
(* SpecAppend (one root trace under append and update), SpecAppendFork     *)
(* (the same with one fork of the root), SpecFork (a root and its forks),  *)
(* SpecForkModified (forks with a modified input and context),             *)
(* SpecForkEval (a root with a verdict and its forks), SpecDelete (root,   *)
(* forks, verdicts, delete), SpecLineage (root, forks, update, delete),    *)
(* SpecUpdate (root, verdict, fork, any patch), SpecGet (traces with       *)
(* textual ids under getTrace), SpecRubric (a root under runEval and       *)
(* runCustomRubric), SpecJudge (a trace under runAiEval, update and        *)
(* delete), SpecConc (a root and two callers of appendStep whose status    *)
(* check and insert transaction interleave), SpecAppendUpdate (the same    *)
(* with a connection that ends the trace), SpecPolicy (policies added and  *)
(* removed), SpecMatch (policies tested on the steps of a trace),          *)
(* SpecSeed (the demo seed, delete and policy removal), SpecDiff (two      *)
(* traces under diffTraces), SpecIntegrity (a root with snapshots under    *)
(* append, fork, delete and the evaluators, with one runAiEval call in     *)
(* flight) and SpecPrefix (a root under the evaluators called with ids     *)
(* and with prefixes of ids).                                              *)
(***************************************************************************)
EXTENDS Integers, Sequences, FiniteSets, TLC

\* ------------------------------------------------------------------ bounds
\* Number of trace ids minted in one behaviour.
MaxTraces == 2
\* Number of rows the steps table holds.
MaxSteps == 2
\* Number of rows the verdicts table holds.
MaxEvals == 1
\* Largest step_number / fromStep a caller passes (0 is the non-positive one).
MaxStepNo == 2
\* Longest steps array of one ingestTrace call.
MaxIngestSteps == 2
\* Most requests that go to the judge in one behaviour.
MaxJudgeCalls == 2
\* Most guardrail policies stored at a time.
MaxPolicies == 2
\* The traces diffTraces takes: a left and a right one.
DiffSides == 2
\* Most trace ids minted in a behaviour that seeds the demo data.
MaxSeedMinted == 10

\* ------------------------------------------------------------- enumerations
TRACE_STATUSES == {"running", "completed", "failed", "timeout"}

STEP_TYPES ==
  {"thought", "tool_call", "llm_call", "retrieval", "output", "decision",
   "error", "guard_check"}

EVAL_TYPES == {"rubric", "llm_judge", "policy_check"}

TerminalStatuses == TRACE_STATUSES \ {"running"}

\* ------------------------------------------------------------------ values
NULL == <<>>

Some(v) == <<v>>

\* A JavaScript value handed to the repository: undefined/null, a string, or
\* an object (carried as the text JSON.stringify gives for it).
Undefined == [kind |-> "undefined", text |-> ""]

Str(t) == [kind |-> "string", text |-> t]

Obj(t) == [kind |-> "object", text |-> t]

jsonStr(val) == IF val.kind = "undefined" THEN "{}" ELSE val.text

jsonOrNull(val) == IF val.kind = "undefined" THEN NULL ELSE Some(val.text)

\* a ?? b on a nullable column value
OrElse(a, b) == IF a = NULL THEN b ELSE a[1]

generateId(prefix, suffix) == <<prefix>> \o suffix

\* nanoid: the random part of the n-th trace id minted is the text of n.
nanoid(n) == <<ToString(n)>>

\* ------------------------------------------------------------------ inputs
StepNumbers == 0..MaxStepNo

SnapshotInput ==
  [context_window |-> Undefined,
   environment    |-> Obj("{\"cwd\":\"/\"}"),
   tool_state     |-> Undefined,
   token_count    |-> Some(300)]

\* The step inputs callers pass, apart from step_number: a bare thought, a
\* fully populated tool call that carries a snapshot, and a step whose
\* step_type is not one of STEP_TYPES.
StepContents ==
  { [step_type |-> "thought", name |-> "think",
     input |-> Undefined, output |-> Undefined,
     duration_ms |-> NULL, tokens_used |-> NULL, model |-> NULL,
     error |-> NULL, metadata |-> Undefined, snapshot |-> NULL],
    [step_type |-> "tool_call", name |-> "search",
     input |-> Obj("{\"q\":1}"), output |-> Str("hit"),
     duration_ms |-> Some(5), tokens_used |-> Some(7), model |-> Some("m1"),
     error |-> Some("boom"), metadata |-> Obj("{\"k\":2}"),
     snapshot |-> Some(SnapshotInput)],
    [step_type |-> "bogus", name |-> "think",
     input |-> Undefined, output |-> Undefined,
     duration_ms |-> NULL, tokens_used |-> NULL, model |-> NULL,
     error |-> NULL, metadata |-> Undefined, snapshot |-> NULL] }

StepInput(n, c) ==
  [step_number |-> n, step_type |-> c.step_type, name |-> c.name,
   input |-> c.input, output |-> c.output, duration_ms |-> c.duration_ms,
   tokens_used |-> c.tokens_used, model |-> c.model, error |-> c.error,
   metadata |-> c.metadata, snapshot |-> c.snapshot]

StepInputs == { StepInput(n, c) : n \in StepNumbers, c \in StepContents }

\* ------------------------------------------------------------------- state
VARIABLES
  traces,     \* table agent_traces
  steps,      \* table agent_trace_steps
  snapshots,  \* table agent_trace_snapshots
  evals,      \* table agent_trace_evals
  minted,     \* number of trace ids minted so far
  last,       \* the last call that succeeded: its name and what it returned
  terminated, \* history: ids of the traces that have had a terminal status
  calls,      \* the appendStep calls of the callers on separate connections
  policies,   \* table guardrail_policies
  judge       \* the runAiEval call that awaits the judge, the number of
              \* requests made to the judge, how the last one settled, and
              \* whether the call it resumed wrote its verdict

vars ==
  <<traces, steps, snapshots, evals, minted, last, terminated, calls,
    policies, judge>>

\* The store as one value, as the code sees it through its db handle.
DB ==
  [traces |-> traces, steps |-> steps, snapshots |-> snapshots,
   evals |-> evals, minted |-> minted, policies |-> policies]

Ids(table) == { r.id : r \in table }

\* The trace ids a caller names: every stored one, and one that is not stored.
NonexistentId == generateId("trc", nanoid(0))

TraceIdArgs == Ids(traces) \cup {NonexistentId}

\* What a call that throws leaves behind: the store as it was.
Failed(db, err) == [ok |-> FALSE, db |-> db, err |-> err, ret |-> NULL]

Done(db, ret) == [ok |-> TRUE, db |-> db, err |-> "none", ret |-> ret]

\* ------------------------------------------------------ schema constraints
\* INSERT INTO agent_traces: PRIMARY KEY, CHECK(status), FK parent_trace_id.
InsertTraceOk(db, row) ==
  /\ row.id \notin Ids(db.traces)
  /\ row.status \in TRACE_STATUSES
  /\ row.parent_trace_id # NULL => row.parent_trace_id[1] \in Ids(db.traces)

\* Variant of InsertStepOk: the table without UNIQUE(trace_id, step_number).
InsertStepOkNoUnique(db, row) ==
  /\ row.id \notin Ids(db.steps)
  /\ row.trace_id \in Ids(db.traces)
  /\ row.step_type \in STEP_TYPES

\* INSERT INTO agent_trace_steps: PRIMARY KEY, FK trace_id, CHECK(step_type),
\* UNIQUE(trace_id, step_number).
InsertStepOk(db, row) ==
  /\ row.id \notin Ids(db.steps)
  /\ row.trace_id \in Ids(db.traces)
  /\ row.step_type \in STEP_TYPES
  /\ ~ \E s \in db.steps :
         s.trace_id = row.trace_id /\ s.step_number = row.step_number

\* INSERT INTO agent_trace_snapshots: PRIMARY KEY, FK step_id.
InsertSnapshotOk(db, row) ==
  /\ row.id \notin Ids(db.snapshots)
  /\ row.step_id \in Ids(db.steps)

\* INSERT INTO agent_trace_evals: PRIMARY KEY, FK trace_id,
\* CHECK(evaluator_type).
InsertEvalOk(db, row) ==
  /\ row.id \notin Ids(db.evals)
  /\ row.trace_id \in Ids(db.traces)
  /\ row.evaluator_type \in EVAL_TYPES

\* ----------------------------------------------------------- row builders
\* The step row that ingestTrace and appendStep insert for a step input.
StepRow(stepId, traceId, in) ==
  [id |-> stepId, trace_id |-> traceId, step_number |-> in.step_number,
   step_type |-> in.step_type, name |-> in.name,
   input |-> jsonStr(in.input), output |-> jsonOrNull(in.output),
   duration_ms |-> in.duration_ms, tokens_used |-> in.tokens_used,
   model |-> in.model, error |-> in.error,
   metadata |-> jsonStr(in.metadata)]

\* The snapshot row inserted for a step input that carries a snapshot.
SnapshotRow(snapId, stepId, sn) ==
  [id |-> snapId, step_id |-> stepId,
   context_window |-> jsonStr(sn.context_window),
   environment |-> jsonStr(sn.environment),
   tool_state |-> jsonStr(sn.tool_state),
   token_count |-> OrElse(sn.token_count, 0)]

\* The suffix of the next step id minted for a trace (and of the id of that
\* step's snapshot).
StepSuffix(db, traceId) ==
  Tail(traceId)
    \o <<Cardinality({ s \in db.steps : s.trace_id = traceId }) + 1>>

EvalSuffix(db, traceId) ==
  Tail(traceId)
    \o <<Cardinality({ e \in db.evals : e.trace_id = traceId }) + 1>>

\* Insert one step and, if supplied, its snapshot: the statements that
\* ingestTrace runs per step and appendStep runs in its transaction.
InsertStepAndSnapshot(db, traceId, in) ==
  LET stepId  == generateId("stp", StepSuffix(db, traceId))
      stepRow == StepRow(stepId, traceId, in)
      db1     == [db EXCEPT !.steps = @ \cup {stepRow}]
  IN  IF ~ InsertStepOk(db, stepRow) THEN Failed(db, "constraint")
      ELSE IF in.snapshot = NULL THEN Done(db1, stepId)
      ELSE LET snapRow == SnapshotRow(
                            generateId("snp", StepSuffix(db, traceId)),
                            stepId, in.snapshot[1])
           IN  IF ~ InsertSnapshotOk(db1, snapRow)
                 THEN Failed(db, "constraint")
                 ELSE Done([db1 EXCEPT !.snapshots = @ \cup {snapRow}],
                           stepId)

\* ------------------------------------------------------------ ingestTrace
\* What callers pass for status and ended_at (NULL: the field is absent).
IngestStatusInputs ==
  { [status |-> NULL, ended_at |-> NULL],
    [status |-> NULL, ended_at |-> Some("t9")],
    [status |-> Some("failed"), ended_at |-> NULL],
    [status |-> Some("timeout"), ended_at |-> NULL] }

\* The steps arrays callers pass to ingestTrace: steps of a valid step_type,
\* listed in step_number order.
IngestStepLists ==
  { sl \in UNION { [1..len -> { in \in StepInputs :
                                  in.step_type \in STEP_TYPES }] :
                   len \in 0..MaxIngestSteps } :
      \A i \in 1..(Len(sl) - 1) :
        sl[i].step_number <= sl[i + 1].step_number }

IngestTraceInputs ==
  { [agent_name |-> "a", status |-> st.status, ended_at |-> st.ended_at,
     input |-> Undefined, steps |-> sl] :
    st \in IngestStatusInputs, sl \in IngestStepLists }

\* The inputs that leave status and ended_at out.
IngestPlainInputs ==
  { in \in IngestTraceInputs : in.status = NULL /\ in.ended_at = NULL }

\* The inputs ingestTrace has to reject after it has begun to write: a
\* status that is not one of TRACE_STATUSES, and a steps array whose last
\* step has a step_type that is not one of STEP_TYPES.
IngestFaultyInputs ==
  { [in EXCEPT !.status = Some("bogus")] : in \in IngestPlainInputs }
  \cup
  { [in EXCEPT !.steps = Append(@, bad)] :
      in \in { x \in IngestPlainInputs : Len(x.steps) < MaxIngestSteps },
      bad \in { x \in StepInputs : x.step_type \notin STEP_TYPES } }

\* Variant of Transaction: the rows written before the throw are kept.
TransactionNoRollback(db, r) == r

\* db.transaction(fn)(): the store as fn left it when fn returns, the store
\* as it was before the call when fn throws.
Transaction(db, r) == IF r.ok THEN r ELSE Failed(db, r.err)

\* The loop over input.steps inside the ingest transaction.
RECURSIVE IngestSteps(_, _, _, _)
IngestSteps(db, traceId, stepList, i) ==
  IF i > Len(stepList) THEN Done(db, traceId)
  ELSE LET r == InsertStepAndSnapshot(db, traceId, stepList[i])
       IN  IF ~ r.ok THEN r
           ELSE IngestSteps(r.db, traceId, stepList, i + 1)

DefaultStatus(input) ==
  IF input.status # NULL THEN input.status[1]
  ELSE IF input.ended_at # NULL THEN "completed" ELSE "running"

\* ingestTrace once generateId('trc') has returned traceId.
ingestTraceWithId(db, input, traceId) ==
  LET row == [id |-> traceId, agent_name |-> input.agent_name,
              status |-> DefaultStatus(input),
              input |-> jsonStr(input.input), error |-> NULL,
              parent_trace_id |-> NULL, forked_from_step |-> NULL]
      r == IF InsertTraceOk(db, row)
             THEN IngestSteps([db EXCEPT !.traces = @ \cup {row},
                                         !.minted = @ + 1],
                              traceId, input.steps, 1)
             ELSE Failed(db, "constraint")
  IN  Transaction(db, r)

ingestTrace(db, input) ==
  ingestTraceWithId(db, input, generateId("trc", nanoid(db.minted + 1)))

\* ------------------------------------------------- rows as they are read
\* The texts stored in the JSON columns that JSON.parse rejects: a string
\* passed for such a column is stored as it is.
NonJsonTexts == {"hit"}

parseJson(raw) ==
  IF raw = NULL THEN NULL
  ELSE IF raw[1] \in NonJsonTexts THEN NULL ELSE Some(Obj(raw[1]))

rowToTrace(row) ==
  [row EXCEPT !.input = OrElse(parseJson(Some(@)), Obj("{}"))]

rowToStep(row) ==
  [row EXCEPT !.input = OrElse(parseJson(Some(@)), Obj("{}")),
              !.output = parseJson(@),
              !.metadata = OrElse(parseJson(Some(@)), Obj("{}"))]

rowToEval(row) ==
  [row EXCEPT !.passed = (@ # 0),
              !.details = OrElse(parseJson(Some(@)), Obj("{}"))]

\* ------------------------------------------------------------- appendStep
\* Variant of AppendStatusCheck: only the existence of the trace is tested.
AppendStatusCheckExistsOnly(db, traceId) ==
  IF traceId \notin Ids(db.traces) THEN "not_found" ELSE "none"

\* The SELECT id, status at the head of appendStep: the error it raises, or
\* "none" when the trace exists and is running.
AppendStatusCheck(db, traceId) ==
  IF traceId \notin Ids(db.traces) THEN "not_found"
  ELSE LET trace == CHOOSE t \in db.traces : t.id = traceId
       IN  IF trace.status # "running" THEN "invalid_state" ELSE "none"

\* Variant of AppendInsert: a constraint failure is swallowed.
AppendInsertSwallow(db, traceId, input) ==
  LET r == InsertStepAndSnapshot(db, traceId, input)
  IN  IF r.ok THEN r ELSE Done(db, NULL)

\* The insert transaction of appendStep.
AppendInsert(db, traceId, input) ==
  LET r == InsertStepAndSnapshot(db, traceId, input)
  IN  IF r.ok THEN r ELSE Failed(db, r.err)

appendStep(db, traceId, input) ==
  LET err == AppendStatusCheck(db, traceId)
  IN  IF err # "none" THEN Failed(db, err)
      ELSE AppendInsert(db, traceId, input)

\* ------------------------------------------------------------ updateTrace
\* A patch: NULL marks a key that is not provided.
UpdateTraceInputs ==
  [status : {NULL} \cup { Some(st) : st \in TRACE_STATUSES },
   error  : {NULL, Some("oops")}]

\* Variant of ApplyUpdate: the error column is written from the patch even
\* when the patch has no error key.
ApplyUpdateAllKeys(row, update) ==
  [row EXCEPT !.status = OrElse(update.status, @), !.error = update.error]

\* UPDATE agent_traces SET <the provided keys> on one row.
ApplyUpdate(row, update) ==
  [row EXCEPT !.status = OrElse(update.status, @),
              !.error  = IF update.error = NULL THEN @ ELSE update.error]

\* Returns the row it reads back after the UPDATE (or, with no key provided,
\* the row as stored), mapped by rowToTrace.
updateTrace(db, traceId, update) ==
  LET check == update.status = NULL \/ update.status[1] \in TRACE_STATUSES
      db1   == [db EXCEPT !.traces =
                  { IF t.id = traceId THEN ApplyUpdate(t, update) ELSE t :
                    t \in db.traces }]
  IN  IF traceId \notin Ids(db.traces) THEN Failed(db, "not_found")
      ELSE IF ~ check THEN Failed(db, "constraint")
      ELSE Done(db1, rowToTrace(CHOOSE t \in db1.traces : t.id = traceId))

\* ------------------------------------------------------------ deleteTrace
\* Variant of DeleteCascade: snapshots do not cascade from the steps.
DeleteCascadeKeepSnapshots(db, traceId) ==
  LET goneSteps == { s \in db.steps : s.trace_id = traceId }
  IN  [db EXCEPT
         !.traces =
           { IF t.parent_trace_id = Some(traceId)
               THEN [t EXCEPT !.parent_trace_id = NULL] ELSE t :
             t \in { u \in db.traces : u.id # traceId } },
         !.steps = db.steps \ goneSteps,
         !.evals = { e \in db.evals : e.trace_id # traceId }]

\* DELETE FROM agent_traces WHERE id = ? with foreign_keys = ON: steps and
\* verdicts of the trace cascade, snapshots cascade from the steps, and
\* parent_trace_id of the forks is set to NULL.
DeleteCascade(db, traceId) ==
  LET goneSteps == { s \in db.steps : s.trace_id = traceId }
  IN  [db EXCEPT
         !.traces =
           { IF t.parent_trace_id = Some(traceId)
               THEN [t EXCEPT !.parent_trace_id = NULL] ELSE t :
             t \in { u \in db.traces : u.id # traceId } },
         !.steps = db.steps \ goneSteps,
         !.snapshots =
           { sn \in db.snapshots : sn.step_id \notin Ids(goneSteps) },
         !.evals = { e \in db.evals : e.trace_id # traceId }]

deleteTrace(db, traceId) ==
  LET changes == Cardinality({ t \in db.traces : t.id = traceId })
  IN  IF changes = 0 THEN Failed(db, "not_found")
      ELSE Done(DeleteCascade(db, traceId), traceId)

\* ------------------------------------------------------------- createEval
\* Scores are held in thousandths.
CreateEvalInputs ==
  { [evaluator_type |-> "rubric", evaluator_name |-> "safety-check",
     score |-> 1000, passed |-> TRUE, details |-> Undefined] }

\* Variant of createEval: the insert is made without the check of the
\* constraints of agent_trace_evals.
createEvalUnchecked(db, traceId, input) ==
  LET row == [id |-> generateId("evl", EvalSuffix(db, traceId)),
              trace_id |-> traceId,
              evaluator_type |-> input.evaluator_type,
              evaluator_name |-> input.evaluator_name,
              score |-> input.score,
              passed |-> IF input.passed THEN 1 ELSE 0,
              details |-> jsonStr(input.details)]
  IN  Done([db EXCEPT !.evals = @ \cup {row}], row.id)

createEval(db, traceId, input) ==
  LET row == [id |-> generateId("evl", EvalSuffix(db, traceId)),
              trace_id |-> traceId,
              evaluator_type |-> input.evaluator_type,
              evaluator_name |-> input.evaluator_name,
              score |-> input.score,
              passed |-> IF input.passed THEN 1 ELSE 0,
              details |-> jsonStr(input.details)]
  IN  IF ~ InsertEvalOk(db, row) THEN Failed(db, "constraint")
      ELSE Done([db EXCEPT !.evals = @ \cup {row}], row.id)

\* -------------------------------------------------------------- forkTrace
FromStepArgs == 0..(MaxStepNo + 1)

ModifiedInputs == {Undefined, Obj("{\"task\":\"modified\"}")}

ModifiedContexts == {Undefined, Obj("{\"cwd\":\"/tmp\"}")}

\* ORDER BY step_number over a set of step rows.
RECURSIVE OrderByStepNumber(_)
OrderByStepNumber(rows) ==
  IF rows = {} THEN <<>>
  ELSE LET first == CHOOSE s \in rows :
                      \A t \in rows : s.step_number <= t.step_number
       IN  <<first>> \o OrderByStepNumber(rows \ {first})

\* Variant of OriginalSteps: step_number < ? in place of step_number <= ?.
OriginalStepsBelow(db, traceId, fromStep) ==
  OrderByStepNumber({ s \in db.steps :
                        s.trace_id = traceId /\ s.step_number < fromStep })

\* SELECT * FROM agent_trace_steps WHERE trace_id = ? AND step_number <= ?
\* ORDER BY step_number
OriginalSteps(db, traceId, fromStep) ==
  OrderByStepNumber({ s \in db.steps :
                        s.trace_id = traceId /\ s.step_number <= fromStep })

\* Variant of CopiedStepRow: the output column is not copied.
CopiedStepRowNoOutput(step, newStepId, forkedId) ==
  [step EXCEPT !.id = newStepId, !.trace_id = forkedId, !.output = NULL]

\* The copy of a parent's step row under a new id in the forked trace.
CopiedStepRow(step, newStepId, forkedId) ==
  [step EXCEPT !.id = newStepId, !.trace_id = forkedId]

\* Variant of CopiedSnapshotRow: the copy stays on the parent's step.
CopiedSnapshotRowOnParentStep(snapshot, newSnapId, newStepId, modifiedContext) ==
  [snapshot EXCEPT
     !.id = newSnapId,
     !.environment = IF modifiedContext.kind # "undefined"
                       THEN modifiedContext.text ELSE @]
\* The copy of a parent's snapshot row for the copied step.
CopiedSnapshotRow(snapshot, newSnapId, newStepId, modifiedContext) ==
  [snapshot EXCEPT
     !.id = newSnapId,
     !.step_id = newStepId,
     !.environment = IF modifiedContext.kind # "undefined"
                       THEN modifiedContext.text ELSE @]

\* The loop that copies the parent's steps and their snapshots.
RECURSIVE CopySteps(_, _, _, _, _)
CopySteps(db, forkedId, originalSteps, i, modifiedContext) ==
  IF i > Len(originalSteps) THEN Done(db, forkedId)
  ELSE
    LET step      == originalSteps[i]
        newStepId == generateId("stp", StepSuffix(db, forkedId))
        stepRow   == CopiedStepRow(step, newStepId, forkedId)
        db1       == [db EXCEPT !.steps = @ \cup {stepRow}]
        found     == { sn \in db.snapshots : sn.step_id = step.id }
    IN  IF ~ InsertStepOk(db, stepRow) THEN Failed(db, "constraint")
        ELSE IF found = {}
          THEN CopySteps(db1, forkedId, originalSteps, i + 1, modifiedContext)
        ELSE
          LET snapRow == CopiedSnapshotRow(
                           CHOOSE sn \in found : TRUE,
                           generateId("snp", StepSuffix(db, forkedId)),
                           newStepId, modifiedContext)
          IN  IF ~ InsertSnapshotOk(db1, snapRow)
                THEN Failed(db, "constraint")
                ELSE CopySteps([db1 EXCEPT !.snapshots = @ \cup {snapRow}],
                               forkedId, originalSteps, i + 1,
                               modifiedContext)

\* Variant of ForkPrecondition: fromStep is not compared with MAX(step_number).
ForkPreconditionNoMax(db, traceId, fromStep) ==
  LET own == { s.step_number : s \in { x \in db.steps : x.trace_id = traceId } }
  IN  IF fromStep < 1 THEN "invalid_from_step"
      ELSE IF traceId \notin Ids(db.traces) THEN "not_found"
      ELSE IF own = {} THEN "no_steps"
      ELSE "none"
\* The error forkTrace raises before it writes anything, or "none".
ForkPrecondition(db, traceId, fromStep) ==
  LET own == { s.step_number : s \in { x \in db.steps : x.trace_id = traceId } }
  IN  IF fromStep < 1 THEN "invalid_from_step"
      ELSE IF traceId \notin Ids(db.traces) THEN "not_found"
      ELSE IF own = {} THEN "no_steps"
      ELSE IF \A m \in own : fromStep > m THEN "exceeds_max_step"
      ELSE "none"

\* Variant of ForkedTraceRow: the fork takes the status of its parent.
ForkedTraceRowParentStatus(forkedId, original, traceId, fromStep, modifiedInput) ==
  [id |-> forkedId, agent_name |-> original.agent_name,
   status |-> original.status,
   input |-> IF modifiedInput.kind # "undefined"
               THEN modifiedInput.text ELSE original.input,
   error |-> NULL,
   parent_trace_id |-> Some(traceId), forked_from_step |-> Some(fromStep)]

\* The row of the forked trace.
ForkedTraceRow(forkedId, original, traceId, fromStep, modifiedInput) ==
  [id |-> forkedId, agent_name |-> original.agent_name,
   status |-> "running",
   input |-> IF modifiedInput.kind # "undefined"
               THEN modifiedInput.text ELSE original.input,
   error |-> NULL,
   parent_trace_id |-> Some(traceId), forked_from_step |-> Some(fromStep)]

forkTrace(db, traceId, fromStep, modifiedInput, modifiedContext) ==
  LET err      == ForkPrecondition(db, traceId, fromStep)
      forkedId == generateId("trc", nanoid(db.minted + 1))
      original == CHOOSE t \in db.traces : t.id = traceId
      row      == ForkedTraceRow(forkedId, original, traceId, fromStep,
                                 modifiedInput)
      originalSteps == OriginalSteps(db, traceId, fromStep)
      r == IF InsertTraceOk(db, row)
             THEN CopySteps([db EXCEPT !.traces = @ \cup {row},
                                       !.minted = @ + 1],
                            forkedId, originalSteps, 1, modifiedContext)
             ELSE Failed(db, "constraint")
  IN  IF err # "none" THEN Failed(db, err)
      ELSE IF ~ r.ok THEN Failed(db, r.err)
      ELSE Done(r.db, [original_trace_id |-> traceId,
                       forked_trace_id |-> forkedId,
                       forked_from_step |-> fromStep,
                       steps_copied |-> Len(originalSteps)])

\* ---------------------------------------------------------------- getTrace
\* The random part of an id: nanoid draws NanoLen characters from an
\* alphabet that has the letters in both cases, the digits, "_" and "-".
NanoLen == 2

NanoAlphabet == {"a", "A", "_"}

NanoIds == [1..NanoLen -> NanoAlphabet]

\* LIKE folds the case of the ASCII letters.
Lower(c) == IF c = "A" THEN "a" ELSE c

\* One character of a LIKE pattern against one character of a value: "_" in
\* the pattern stands for any one character.
LikeChar(pc, c) == pc = "_" \/ Lower(pc) = Lower(c)

\* id LIKE ? with the parameter `${traceId}%`.  An id is the sequence of its
\* characters, the leading "trc_" taken as one.
LikePrefix(id, traceId) ==
  /\ Len(traceId) <= Len(id)
  /\ \A i \in 1..Len(traceId) : LikeChar(traceId[i], id[i])

\* The trace of a row with its steps in step_number order and its verdicts
\* (held as a set).
TraceWithDetails(db, traceRow) ==
  LET stepRows ==
        OrderByStepNumber({ s \in db.steps : s.trace_id = traceRow.id })
  IN  [trace |-> rowToTrace(traceRow),
       steps |-> [i \in 1..Len(stepRows) |-> rowToStep(stepRows[i])],
       evals |-> { rowToEval(e) :
                     e \in { x \in db.evals : x.trace_id = traceRow.id } }]

\* The values getTrace may return.  Its SELECT ... WHERE id = ? OR id LIKE ?
\* LIMIT 1 has no ORDER BY: when several rows match, any of them may be the
\* one returned.
getTrace(db, traceId) ==
  LET rows == { t \in db.traces :
                  t.id = traceId \/ LikePrefix(t.id, traceId) }
  IN  IF rows = {} THEN {NULL}
      ELSE { TraceWithDetails(db, t) : t \in rows }

\* -------------------------------------------------------- rubric verdicts
\* Scores and thresholds are held in thousandths.
\* Math.round(x * 1000) / 1000 for x = num / (1000 * den), den > 0, in
\* thousandths: the nearest thousandth, a half rounded up.
RoundThousandths(num, den) == (2 * num + den) \div (2 * den)

\* The threshold as JSON.stringify writes it into the details of a verdict
\* (the entries of details.criteria are left out).
DetailsText(threshold) ==
  CASE threshold = 667 -> "{\"threshold\":0.667}"
    [] threshold = 700 -> "{\"threshold\":0.7}"
    [] threshold = 800 -> "{\"threshold\":0.8}"

\* The context a criterion is checked in.
EvalContext(trace) ==
  [input |-> trace.trace.input, steps |-> trace.steps,
   error |-> trace.trace.error]

\* Tool names that the patterns of no_dangerous_tool_calls match.
DangerousNames == {"delete_users"}

\* The check of a preset's criterion.  The criteria that are not listed
\* search the serialized output or input of the trace for fixed phrases,
\* which none of the texts of this model contains: they score 1.
Check(name, ctx) ==
  LET idx       == 1..Len(ctx.steps)
      types     == { ctx.steps[i].step_type : i \in idx }
      toolCalls == { i \in idx : ctx.steps[i].step_type = "tool_call" }
      completed == { i \in toolCalls : ctx.steps[i].output # NULL }
  IN  CASE name = "no_error_steps" ->
             IF "error" \in types THEN 0 ELSE 1000
        [] name = "no_dangerous_tool_calls" ->
             IF \E i \in toolCalls : ctx.steps[i].name \in DangerousNames
               THEN 0 ELSE 1000
        [] name = "has_output_step" ->
             IF "output" \in types THEN 1000 ELSE 0
        [] name = "all_tool_calls_completed" ->
             IF toolCalls = {} THEN 1000
             ELSE (1000 * Cardinality(completed)) \div Cardinality(toolCalls)
        [] name = "no_unresolved_errors" ->
             IF ctx.steps = <<>> THEN 1000
             ELSE IF ctx.steps[Len(ctx.steps)].step_type = "error"
               THEN 0 ELSE 1000
        [] OTHER -> 1000

\* The built-in presets; weights in tenths.
PRESETS ==
  "hallucination-check" :>
     [threshold |-> 700,
      criteria |-> << [name |-> "no_hedging_language", weight |-> 3],
                      [name |-> "output_grounded_in_retrieval", weight |-> 4],
                      [name |-> "no_error_steps", weight |-> 3] >>]
  @@ "safety-check" :>
     [threshold |-> 800,
      criteria |-> << [name |-> "no_dangerous_tool_calls", weight |-> 4],
                      [name |-> "no_pii_in_output", weight |-> 3],
                      [name |-> "no_prompt_injection", weight |-> 3] >>]
  @@ "completeness-check" :>
     [threshold |-> 700,
      criteria |-> << [name |-> "has_output_step", weight |-> 4],
                      [name |-> "all_tool_calls_completed", weight |-> 3],
                      [name |-> "no_unresolved_errors", weight |-> 3] >>]

PRESET_NAMES == DOMAIN PRESETS

\* What callers pass for presetName.
PresetNameArgs == PRESET_NAMES \cup {"nonexistent"}

\* weightedSum and totalWeight after the loop over the criteria.
RECURSIVE WeightedSum(_)
WeightedSum(results) ==
  IF results = <<>> THEN 0
  ELSE results[1].score * results[1].weight + WeightedSum(Tail(results))

RECURSIVE TotalWeight(_)
TotalWeight(results) ==
  IF results = <<>> THEN 0
  ELSE results[1].weight + TotalWeight(Tail(results))

\* The verdict that runEval and runCustomRubric hand to createEval: the
\* weighted mean (0 unless the total weight is positive), compared with the
\* threshold before it is rounded.
RubricVerdict(name, threshold, results) ==
  LET weightedSum == WeightedSum(results)
      totalWeight == TotalWeight(results)
  IN  [evaluator_type |-> "rubric", evaluator_name |-> name,
       score |-> IF totalWeight > 0
                   THEN RoundThousandths(weightedSum, totalWeight) ELSE 0,
       passed |-> IF totalWeight > 0
                    THEN weightedSum >= threshold * totalWeight
                    ELSE 0 >= threshold,
       details |-> Obj(DetailsText(threshold))]

\* runEval; trace is what its getTrace(db, traceId) returned.
runEval(db, traceId, presetName, trace) ==
  IF presetName \notin PRESET_NAMES THEN Failed(db, "unknown_preset")
  ELSE IF trace = NULL THEN Failed(db, "not_found")
  ELSE
    LET preset == PRESETS[presetName]
        ctx    == EvalContext(trace)
        criteriaResults ==
          [i \in 1..Len(preset.criteria) |->
             [name |-> preset.criteria[i].name,
              score |-> Check(preset.criteria[i].name, ctx),
              weight |-> preset.criteria[i].weight]]
    IN  createEval(db, traceId,
                   RubricVerdict(presetName, preset.threshold,
                                 criteriaResults))

\* The patterns of the criteria of a custom rubric: one that every
\* serialized trace matches, one that matches a trace whose input has the
\* key "task", and one that is not a regular expression.
RubricPatterns == {"\\{", "task", "("}

\* safeRegex: null for a pattern that does not compile.
safeRegex(pattern) == IF pattern = "(" THEN NULL ELSE Some(pattern)

\* regex.test(fullText), fullText being the serialized input, output and
\* step outputs of the trace.
RegexTest(pattern, trace) ==
  CASE pattern = "\\{" -> TRUE
    [] pattern = "task" -> trace.trace.input.text = "{\"task\":\"modified\"}"
    [] OTHER -> FALSE

\* The weights of custom criteria (NULL: no weight given), and the longest
\* criteria array.
RubricWeights == {NULL, Some(-1), Some(0), Some(2)}

MaxCriteria == 2

RubricCriteria ==
  [pattern : RubricPatterns, expected : BOOLEAN, weight : RubricWeights]

Rubrics ==
  [name : {"custom-check"}, threshold : {NULL, Some(667)},
   criteria : UNION { [1..n -> RubricCriteria] : n \in 1..MaxCriteria }]

\* The result of one custom criterion.
CustomCriterionResult(c, trace) ==
  [name |-> "c",
   score |-> IF safeRegex(c.pattern) = NULL THEN 0
             ELSE IF RegexTest(c.pattern, trace) = c.expected THEN 1000
             ELSE 0,
   weight |-> OrElse(c.weight, 1)]

\* runCustomRubric; trace is what its getTrace(db, traceId) returned.
runCustomRubric(db, traceId, rubric, trace) ==
  IF trace = NULL THEN Failed(db, "not_found")
  ELSE
    LET threshold == OrElse(rubric.threshold, 700)
        criteriaResults ==
          [i \in 1..Len(rubric.criteria) |->
             CustomCriterionResult(rubric.criteria[i], trace)]
    IN  createEval(db, traceId,
                   RubricVerdict(rubric.name, threshold, criteriaResults))
\* -------------------------------------------------------------- runAiEval
\* The judge presets: the threshold in thousandths, and whether the preset
\* has an applicable function.
AI_PRESETS ==
     "ai-root-cause" :> [threshold |-> 500, applicable |-> TRUE]
  @@ "ai-quality-review" :> [threshold |-> 700, applicable |-> FALSE]
  @@ "ai-security-audit" :> [threshold |-> 800, applicable |-> FALSE]
  @@ "ai-optimization" :> [threshold |-> 600, applicable |-> FALSE]

AI_PRESET_NAMES == DOMAIN AI_PRESETS

\* What callers pass for presetName.
AiPresetNameArgs == AI_PRESET_NAMES \cup {"nonexistent"}

\* Variant of Applicable: every trace is taken to be applicable.
ApplicableAlways(presetName, ctx) == TRUE

\* preset.applicable(ctx), for a preset that has the function: the one of
\* ai-root-cause.
Applicable(presetName, ctx) ==
  \/ ctx.error # NULL
  \/ \E i \in 1..Len(ctx.steps) : ctx.steps[i].step_type = "error"

\* The verdict of a preset that is not applicable to the trace.
SkippedDetails == "{\"skipped\":true,\"reason\":\"Not applicable to this trace\"}"

SkippedVerdict(presetName) ==
  [evaluator_type |-> "llm_judge", evaluator_name |-> presetName,
   score |-> 1000, passed |-> TRUE, details |-> Obj(SkippedDetails)]

\* The kinds of LlmError that callLlm throws.
LlmErrorTypes == {"network", "auth", "rate_limit", "server", "parse"}

\* The texts the judge answers with: a root-cause object, an audit object,
\* and a text extractJson finds no JSON in.
ResponseTexts ==
  {"{\"confidence\":0.9}", "{\"risk_level\":\"none\",\"safe\":true}",
   "no json here"}

\* How an awaited callLlm settles: with a response, or with an LlmError.
JudgeOutcomes ==
  { [kind |-> "response", text |-> t] : t \in ResponseTexts }
    \cup { [kind |-> "error", type |-> ty] : ty \in LlmErrorTypes }

\* extractJson throws on a text that holds no JSON.
ExtractJsonThrows(text) == text = "no json here"

\* preset.parse_response on a text with JSON in it: score and passed.  A key
\* the object lacks counts as 0 (confidence, the 0-10 marks), as "medium"
\* (risk_level) or as false (safe).
ParseResponse(presetName, text) ==
  CASE presetName = "ai-root-cause" ->
         IF text = "{\"confidence\":0.9}"
         THEN [score |-> 900, passed |-> TRUE]
         ELSE [score |-> 0, passed |-> FALSE]
    [] presetName = "ai-security-audit" ->
         IF text = "{\"risk_level\":\"none\",\"safe\":true}"
         THEN [score |-> 1000, passed |-> TRUE]
         ELSE [score |-> 500, passed |-> FALSE]
    [] OTHER -> [score |-> 0, passed |-> FALSE]

\* The verdict runAiEval builds from a response: the parsed one, or the
\* parse_error one when parse_response throws; the details carry the
\* metadata of the response.
ResponseVerdict(presetName, text) ==
  IF ExtractJsonThrows(text)
  THEN [evaluator_type |-> "llm_judge", evaluator_name |-> presetName,
        score |-> 0, passed |-> FALSE,
        details |-> Obj("{\"parse_error\":true,\"llm_model\":\"m1\"}")]
  ELSE LET parsed == ParseResponse(presetName, text)
       IN  [evaluator_type |-> "llm_judge", evaluator_name |-> presetName,
            score |-> parsed.score, passed |-> parsed.passed,
            details |-> Obj("{\"llm_model\":\"m1\"}")]

\* runAiEval up to its await; trace is what its getTrace(db, traceId)
\* returned.  The call either settles here (r is its result and no request
\* goes to the judge) or suspends on the request it hands to callLlm.
runAiEvalBegin(db, traceId, presetName, trace) ==
  IF presetName \notin AI_PRESET_NAMES
  THEN [r |-> Failed(db, "unknown_preset"), request |-> NULL]
  ELSE IF trace = NULL
  THEN [r |-> Failed(db, "not_found"), request |-> NULL]
  ELSE IF /\ AI_PRESETS[presetName].applicable
          /\ ~ Applicable(presetName, EvalContext(trace))
  THEN [r |-> createEval(db, traceId, SkippedVerdict(presetName)),
        request |-> NULL]
  ELSE [r |-> Done(db, NULL),
        request |-> Some([traceId |-> traceId, presetName |-> presetName])]

\* Variant of OnLlmError: a failure of the judge is recorded as a verdict
\* of score 0.
OnLlmErrorWritesVerdict(db, call, type) ==
  createEval(db, call.traceId,
             [evaluator_type |-> "llm_judge",
              evaluator_name |-> call.presetName,
              score |-> 0, passed |-> FALSE, details |-> Undefined])

\* An LlmError thrown by the awaited callLlm: nothing catches it, and
\* runAiEval rejects with it.
OnLlmError(db, call, type) == Failed(db, type)

\* runAiEval from the point where the awaited callLlm settles.
runAiEvalResume(db, call, outcome) ==
  IF outcome.kind = "error" THEN OnLlmError(db, call, outcome.type)
  ELSE createEval(db, call.traceId,
                  ResponseVerdict(call.presetName, outcome.text))
\* ------------------------------------------------------ guardrail policies
GUARD_ACTIONS == {"allow", "deny", "warn", "require_review"}

\* A text that the matcher looks inside is the sequence of its characters.
\* The texts of the steps of this model: the step names, the serialized
\* inputs, and the serialized outputs.
Chars(text) ==
  CASE text = "think" -> <<"t", "h", "i", "n", "k">>
    [] text = "search" -> <<"s", "e", "a", "r", "c", "h">>
    [] text = "abort" -> <<"a", "b", "o", "r", "t">>
    [] text = "{}" -> <<"{", "}">>
    [] text = "{\"q\":1}" -> <<"{", "\"", "q", "\"", ":", "1", "}">>
    [] text = "\"\"" -> <<"\"", "\"">>

\* String.prototype.toLowerCase on the characters of this model.
LowerCase(c) ==
  CASE c = "A" -> "a"
    [] c = "R" -> "r"
    [] c = "Q" -> "q"
    [] OTHER -> c

toLowerCase(text) == [i \in 1..Len(text) |-> LowerCase(text[i])]

\* String.prototype.includes.
Includes(text, search) ==
  \E i \in 0..(Len(text) - Len(search)) :
    SubSeq(text, i + 1, i + Len(search)) = search

\* The guard-service's parseJson of a stored column: {} for a text that is
\* not JSON.
GuardParseJson(raw) == IF raw \in NonJsonTexts THEN "{}" ELSE raw

\* rowToTraceStep followed by JSON.stringify: the name, the serialized input
\* and the serialized output ?? '' of a stored step.
StepName(row) == Chars(row.name)

StepInputJson(row) == Chars(GuardParseJson(row.input))

StepOutputJson(row) ==
  IF row.output = NULL \/ row.output = Some("") THEN Chars("\"\"")
  ELSE Chars(GuardParseJson(row.output[1]))

\* The values of the keys of a match_pattern: NULL for a key the pattern
\* does not have, else the string, the empty string <<>> included.  A
\* step_type is held as a text of one character.
StepTypeValues == {NULL, Some(<<>>), Some(<<"tool_call">>)}

NameContainsValues == {NULL, Some(<<>>), Some(<<"A", "R">>)}

NameRegexValues == {NULL, Some(<<>>), Some(<<"A", "R">>), Some(<<"(">>)}

InputContainsValues == {NULL, Some(<<"Q">>)}

OutputContainsValues == {NULL, Some(<<"{">>)}

MatchPatterns ==
  [step_type : StepTypeValues, name_contains : NameContainsValues,
   name_regex : NameRegexValues, input_contains : InputContainsValues,
   output_contains : OutputContainsValues]

\* The JavaScript truth value of pattern.key: false for a key that is not
\* there and for the empty string.
Truthy(v) == v # NULL /\ v[1] # <<>>

\* safeRegex(pattern, 'i'): null for a pattern that does not compile.
GuardSafeRegex(pattern) == IF pattern = <<"(">> THEN NULL ELSE Some(pattern)

\* regex.test(name) under the flag i, for a pattern without metacharacters.
GuardRegexTest(pattern, name) ==
  Includes(toLowerCase(name), toLowerCase(pattern))

\* matchesPolicy: NULL, or the keys that went into the reason.
matchesPolicy(step, policy) ==
  LET pattern == policy.match_pattern
      reasons ==
        { k \in {"step_type", "name_contains", "name_regex",
                 "input_contains", "output_contains"} : Truthy(pattern[k]) }
  IN  IF Truthy(pattern.step_type)
         /\ <<step.step_type>> # pattern.step_type[1]
      THEN NULL
      ELSE IF Truthy(pattern.name_contains)
              /\ ~ Includes(toLowerCase(StepName(step)),
                            toLowerCase(pattern.name_contains[1]))
      THEN NULL
      ELSE IF Truthy(pattern.name_regex)
              /\ (\/ GuardSafeRegex(pattern.name_regex[1]) = NULL
                  \/ ~ GuardRegexTest(pattern.name_regex[1], StepName(step)))
      THEN NULL
      ELSE IF Truthy(pattern.input_contains)
              /\ ~ Includes(toLowerCase(StepInputJson(step)),
                            toLowerCase(pattern.input_contains[1]))
      THEN NULL
      ELSE IF Truthy(pattern.output_contains)
              /\ ~ Includes(toLowerCase(StepOutputJson(step)),
                            toLowerCase(pattern.output_contains[1]))
      THEN NULL
      ELSE IF reasons = {} THEN NULL
      ELSE Some(reasons)

\* The random part of a new policy id: the text of the least number whose
\* id is not in use.
PolicyNano(db) ==
  <<ToString(CHOOSE n \in 1..(Cardinality(db.policies) + 1) :
       /\ generateId("pol", <<ToString(n)>>) \notin Ids(db.policies)
       /\ \A m \in 1..(n - 1) :
            generateId("pol", <<ToString(m)>>) \in Ids(db.policies))>>

rowToPolicy(row) == [row EXCEPT !.enabled = (@ # 0)]

\* The constraints of guardrail_policies.
InsertPolicyOk(db, row) ==
  /\ row.id \notin Ids(db.policies)
  /\ row.name \notin { p.name : p \in db.policies }
  /\ row.action \in GUARD_ACTIONS

\* Variant of addPolicy: the insert does not look at the names in use.
addPolicyAnyName(db, policy) ==
  LET row == [id |-> generateId("pol", PolicyNano(db)),
              name |-> policy.name, action |-> policy.action,
              priority |-> OrElse(policy.priority, 0), enabled |-> 1,
              match_pattern |-> policy.match_pattern]
  IN  Done([db EXCEPT !.policies = @ \cup {row}], rowToPolicy(row))

\* addPolicy.  The match_pattern column holds the JSON text of the pattern,
\* an object of strings, which rowToPolicy parses back to the same object.
addPolicy(db, policy) ==
  LET row == [id |-> generateId("pol", PolicyNano(db)),
              name |-> policy.name, action |-> policy.action,
              priority |-> OrElse(policy.priority, 0), enabled |-> 1,
              match_pattern |-> policy.match_pattern]
  IN  IF ~ InsertPolicyOk(db, row) THEN Failed(db, "constraint")
      ELSE Done([db EXCEPT !.policies = @ \cup {row}], rowToPolicy(row))

\* removePolicy: DELETE FROM guardrail_policies WHERE id = ? OR name = ?.
removePolicy(db, policyId) ==
  LET gone == { p \in db.policies : p.id = policyId \/ p.name = policyId }
  IN  IF Cardinality(gone) = 0 THEN Failed(db, "not_found")
      ELSE Done([db EXCEPT !.policies = @ \ gone], NULL)

\* testPolicies: for each step of the trace, in step_number order, the step
\* and the enabled policies that match it, each with its action and the
\* keys of its reason.  The matches of a step are held as a set: ORDER BY
\* priority DESC leaves the order of policies of one priority open.
testPolicies(db, traceId) ==
  LET enabledPolicies == { p \in db.policies : p.enabled = 1 }
      stepRows ==
        OrderByStepNumber({ s \in db.steps : s.trace_id = traceId })
  IN  IF Len(stepRows) = 0 THEN Failed(db, "not_found")
      ELSE Done(db,
             [i \in 1..Len(stepRows) |->
                [step |-> stepRows[i].id,
                 matches |->
                   { [policy |-> p.id, action |-> p.action,
                      reason |-> matchesPolicy(stepRows[i], p)[1]] :
                     p \in { q \in enabledPolicies :
                               matchesPolicy(stepRows[i], q) # NULL } }]])
\* ------------------------------------------------------------ seedDemoData
\* The five demo scenarios, each cut down to its agent, its status and a
\* first step; the step of the scenarios that failed carries a snapshot.
SeedScenario(agent, status, content) ==
  [agent_name |-> agent, status |-> Some(status), ended_at |-> Some("t9"),
   input |-> Undefined,
   steps |-> << StepInput(1, CHOOSE c \in StepContents :
                                c.step_type = content) >>]

scenarios ==
  << SeedScenario("customer-service-bot", "failed", "tool_call"),
     SeedScenario("code-pilot", "failed", "tool_call"),
     SeedScenario("research-assistant", "timeout", "thought"),
     SeedScenario("travel-assistant", "completed", "thought"),
     SeedScenario("admin-assistant", "completed", "thought") >>

\* The three demo policies; a word of a pattern is held as one character.
SeedPattern(stepType, nameContains, inputContains, outputContains) ==
  [step_type |-> stepType, name_contains |-> nameContains,
   name_regex |-> NULL, input_contains |-> inputContains,
   output_contains |-> outputContains]

SeedPolicies ==
  << [name |-> <<"no-delete-operations">>, action |-> "deny",
      priority |-> Some(100),
      match_pattern |->
        SeedPattern(Some(<<"tool_call">>), Some(<<"delete">>), NULL, NULL)],
     [name |-> <<"token-limit-warning">>, action |-> "warn",
      priority |-> Some(50),
      match_pattern |->
        SeedPattern(Some(<<"llm_call">>), NULL,
                    Some(<<"max_output_tokens">>), NULL)],
     [name |-> <<"no-external-urls">>, action |-> "deny",
      priority |-> Some(75),
      match_pattern |-> SeedPattern(NULL, NULL, NULL, Some(<<"http">>))] >>

\* for (const scenario of scenarios) ingestTrace(db, scenario): each call
\* is a transaction of its own, and a call that throws ends the loop with
\* the earlier traces stored.
RECURSIVE SeedTraces(_, _)
SeedTraces(db, i) ==
  IF i > Len(scenarios) THEN Done(db, NULL)
  ELSE LET r == ingestTrace(db, scenarios[i])
       IN  IF ~ r.ok THEN r ELSE SeedTraces(r.db, i + 1)

\* The three addPolicy calls, one after the other.
RECURSIVE SeedAddPolicies(_, _)
SeedAddPolicies(db, i) ==
  IF i > Len(SeedPolicies) THEN Done(db, NULL)
  ELSE LET r == addPolicy(db, SeedPolicies[i])
       IN  IF ~ r.ok THEN r ELSE SeedAddPolicies(r.db, i + 1)

\* seedDemoData: the store it leaves when it throws is the store at the
\* call that threw.
seedDemoData(db) ==
  LET r == SeedTraces(db, 1)
  IN  IF ~ r.ok THEN r ELSE SeedAddPolicies(r.db, 1)
\* -------------------------------------------------------------- diffTraces
\* safeParseJson: the parsed value of a JSON text, the text itself when it
\* does not parse, null for null.
safeParseJson(raw) ==
  IF raw = NULL THEN NULL
  ELSE IF raw[1] \in NonJsonTexts THEN Some(Str(raw[1]))
  ELSE Some(Obj(raw[1]))

StepDiff(stepNum, field, leftValue, rightValue) ==
  [step_number |-> stepNum, field |-> field,
   left_value |-> leftValue, right_value |-> rightValue]

\* Variant of FieldDiffs: the ids of the two steps are compared as well.
FieldDiffsWithIds(left, right) ==
  LET stepNum == left.step_number
  IN  (IF left.id # right.id
         THEN << StepDiff(stepNum, "id", Some(left.id), Some(right.id)) >>
         ELSE <<>>)
      \o (IF left.step_type # right.step_type
            THEN << StepDiff(stepNum, "step_type",
                             Some(left.step_type), Some(right.step_type)) >>
            ELSE <<>>)
      \o (IF left.name # right.name
            THEN << StepDiff(stepNum, "name",
                             Some(left.name), Some(right.name)) >>
            ELSE <<>>)

\* The diffs of a position that both traces have a step at, in the order
\* step_type, name, input, output; the step number is the left one's.
FieldDiffs(left, right) ==
  LET stepNum == left.step_number
  IN  (IF left.step_type # right.step_type
         THEN << StepDiff(stepNum, "step_type",
                          Some(left.step_type), Some(right.step_type)) >>
         ELSE <<>>)
      \o (IF left.name # right.name
            THEN << StepDiff(stepNum, "name",
                             Some(left.name), Some(right.name)) >>
            ELSE <<>>)
      \o (IF left.input # right.input
            THEN << StepDiff(stepNum, "input",
                             safeParseJson(Some(left.input)),
                             safeParseJson(Some(right.input))) >>
            ELSE <<>>)
      \o (IF left.output # right.output
            THEN << StepDiff(stepNum, "output",
                             safeParseJson(left.output),
                             safeParseJson(right.output)) >>
            ELSE <<>>)

\* The loop over the positions i .. maxSteps of the two step lists.
RECURSIVE DiffLoop(_, _, _)
DiffLoop(leftSteps, rightSteps, i) ==
  LET maxSteps == IF Len(leftSteps) >= Len(rightSteps)
                    THEN Len(leftSteps) ELSE Len(rightSteps)
  IN  IF i > maxSteps THEN <<>>
      ELSE (IF i <= Len(leftSteps) /\ i <= Len(rightSteps)
              THEN FieldDiffs(leftSteps[i], rightSteps[i])
            ELSE IF i <= Len(leftSteps)
              THEN << StepDiff(leftSteps[i].step_number, "missing_right",
                               Some(leftSteps[i].name), NULL) >>
            ELSE << StepDiff(rightSteps[i].step_number, "missing_left",
                             NULL, Some(rightSteps[i].name)) >>)
           \o DiffLoop(leftSteps, rightSteps, i + 1)

\* diffTraces: divergence_step is the step number of the first diff.
diffTraces(db, leftTraceId, rightTraceId) ==
  LET leftSteps ==
        OrderByStepNumber({ s \in db.steps : s.trace_id = leftTraceId })
      rightSteps ==
        OrderByStepNumber({ s \in db.steps : s.trace_id = rightTraceId })
      diffs == DiffLoop(leftSteps, rightSteps, 1)
  IN  Done(db,
           [left_trace_id |-> leftTraceId, right_trace_id |-> rightTraceId,
            divergence_step |->
              IF diffs = <<>> THEN NULL ELSE Some(diffs[1].step_number),
            left_step_count |-> Len(leftSteps),
            right_step_count |-> Len(rightSteps),
            diffs |-> diffs])
\* ------------------------------------------------- appendStep, two callers
\* The two callers whose appendStep calls run side by side, each on its own
\* connection to the store.
Callers == {"A", "B"}

\* The steps these callers pass.
CallerStepInputs == { in \in StepInputs : in.step_type = "thought" }

Idle == [pc |-> "idle"]

OtherCaller(c) == CHOOSE d \in Callers : d # c

\* The status check of a caller's appendStep.  A call that passes it is
\* recorded with its arguments, with whether its step_number was unused in
\* the trace at that moment (free), and with whether the other caller's call
\* was then between its check and its insert (overlap).
AppendCheck(c) ==
  \E traceId \in TraceIdArgs, input \in CallerStepInputs :
    LET err == AppendStatusCheck(DB, traceId)
        d   == OtherCaller(c)
        ov  == calls[d].pc = "checked"
        free == ~ \E s \in steps : s.trace_id = traceId
                                   /\ s.step_number = input.step_number
    IN  /\ calls[c].pc # "checked"
        /\ calls' =
             IF err # "none" THEN calls
             ELSE [calls EXCEPT
                     ![c] = [pc |-> "checked", traceId |-> traceId,
                             input |-> input, free |-> free, overlap |-> ov],
                     ![d] = IF ov THEN [@ EXCEPT !.overlap = TRUE] ELSE @]
        /\ UNCHANGED <<traces, steps, snapshots, evals, minted, last,
                       terminated, policies, judge>>

\* The insert transaction of a caller's appendStep; the store runs the write
\* transactions of its connections one at a time.
AppendTx(c) ==
  /\ calls[c].pc = "checked"
  /\ LET r == AppendInsert(DB, calls[c].traceId, calls[c].input)
     IN  /\ steps' = r.db.steps
         /\ snapshots' = r.db.snapshots
         /\ calls' = [calls EXCEPT
                        ![c] = [pc |-> "done", ok |-> r.ok] @@ @]
         /\ last' = IF r.ok THEN [op |-> "appendStep", ret |-> r.ret]
                    ELSE last
  /\ UNCHANGED <<traces, evals, minted, terminated, policies, judge>>

\* ---------------------------------------------------------- state machine
Init ==
  /\ traces = {}
  /\ steps = {}
  /\ snapshots = {}
  /\ evals = {}
  /\ minted = 0
  /\ policies = {}
  /\ last = [op |-> "open", ret |-> NULL]
  /\ terminated = {}
  /\ calls = [c \in Callers |-> Idle]
  /\ judge = [pc |-> "idle", invoked |-> 0, settled |-> "none",
              wrote |-> FALSE]

\* One call on the repository API: the store becomes what the call leaves.
\* A call that throws leaves the store, and the record of the last call that
\* succeeded, as they were.
ApplyStore(op, r) ==
  /\ traces' = r.db.traces
  /\ steps' = r.db.steps
  /\ snapshots' = r.db.snapshots
  /\ evals' = r.db.evals
  /\ minted' = r.db.minted
  /\ policies' = r.db.policies
  /\ last' = IF r.ok THEN [op |-> op, ret |-> r.ret] ELSE last

Apply(op, r) ==
  /\ ApplyStore(op, r)
  /\ UNCHANGED <<calls, judge>>

\* The history of the terminal statuses, kept by the specification Spec.
Track ==
  terminated' =
    terminated \cup { t.id : t \in { x \in traces' :
                                       x.status \in TerminalStatuses } }

\* The status patches of updateTrace.
StatusUpdates == { u \in UpdateTraceInputs : u.error = NULL }

DoIngest ==
  /\ minted < MaxTraces
  /\ \E input \in IngestTraceInputs :
       Apply("ingestTrace", ingestTrace(DB, input))
  /\ Cardinality(steps') <= MaxSteps

\* Ingest into the empty store: the one root trace of a behaviour.
DoIngestRoot ==
  /\ minted = 0
  /\ \E input \in IngestTraceInputs :
       Apply("ingestTrace", ingestTrace(DB, input))

DoAppend ==
  /\ \E traceId \in TraceIdArgs, input \in StepInputs :
       Apply("appendStep", appendStep(DB, traceId, input))
  /\ Cardinality(steps') <= MaxSteps

DoUpdate ==
  \E traceId \in TraceIdArgs, update \in StatusUpdates :
    Apply("updateTrace", updateTrace(DB, traceId, update))


\* updateTrace with any patch, the empty one included.
DoUpdatePatch ==
  \E traceId \in TraceIdArgs, update \in UpdateTraceInputs :
    Apply("updateTrace", updateTrace(DB, traceId, update))

DoDelete ==
  \E traceId \in TraceIdArgs :
    Apply("deleteTrace", deleteTrace(DB, traceId))

DoCreateEval ==
  /\ Cardinality(evals) < MaxEvals
  /\ \E traceId \in TraceIdArgs, input \in CreateEvalInputs :
       Apply("createEval", createEval(DB, traceId, input))

DoFork ==
  /\ minted < MaxTraces
  /\ \E traceId \in TraceIdArgs, fromStep \in FromStepArgs :
       Apply("forkTrace", forkTrace(DB, traceId, fromStep,
                                    Undefined, Undefined))

\* A verdict on the root trace before its first fork.
DoCreateEvalRoot == minted = 1 /\ DoCreateEval

\* The first fork: a fork of the root trace.
DoForkRoot == minted = 1 /\ DoFork

\* forkTrace called with its modifiedInput and modifiedContext arguments.
DoForkModified ==
  /\ minted < MaxTraces
  /\ \E traceId \in TraceIdArgs, fromStep \in FromStepArgs,
        modifiedInput \in ModifiedInputs,
        modifiedContext \in ModifiedContexts :
       Apply("forkTrace", forkTrace(DB, traceId, fromStep,
                                    modifiedInput, modifiedContext))


\* The inputs of the traces that getTrace is asked for.
GetTraceIngestInputs == { in \in IngestPlainInputs : Len(in.steps) <= 1 }

\* ingestTrace, with the id that nanoid happens to return.
DoIngestNano ==
  /\ minted < MaxTraces
  /\ \E input \in GetTraceIngestInputs, nano \in NanoIds :
       Apply("ingestTrace",
             ingestTraceWithId(DB, input, generateId("trc", nano)))

\* getTrace, asked for a stored id or for the first characters of one.
DoGetTrace ==
  /\ \E t \in traces : \E k \in 1..Len(t.id) :
       \E res \in getTrace(DB, SubSeq(t.id, 1, k)) :
         last' = [op |-> "getTrace", ret |-> res]
  /\ UNCHANGED <<traces, steps, snapshots, evals, minted, terminated, calls,
                 policies, judge>>

RunEval(presetNames) ==
  /\ Cardinality(evals) < MaxEvals
  /\ \E traceId \in TraceIdArgs, presetName \in presetNames :
       \E trace \in getTrace(DB, traceId) :
         Apply("runEval", runEval(DB, traceId, presetName, trace))

DoRunEval == RunEval(PresetNameArgs)

DoRunCustomRubric ==
  /\ Cardinality(evals) < MaxEvals
  /\ \E traceId \in TraceIdArgs, rubric \in Rubrics :
       \E trace \in getTrace(DB, traceId) :
         Apply("runCustomRubric",
               runCustomRubric(DB, traceId, rubric, trace))


\* The traces the judge presets are run on: steps numbered from 1 on, each
\* a bare thought or an error step.
ErrorStepContent ==
  [step_type |-> "error", name |-> "abort",
   input |-> Undefined, output |-> Undefined,
   duration_ms |-> NULL, tokens_used |-> NULL, model |-> NULL,
   error |-> Some("boom"), metadata |-> Undefined, snapshot |-> NULL]

JudgedStepContents ==
  { c \in StepContents : c.step_type = "thought" } \cup {ErrorStepContent}

JudgedIngestInputs ==
  { [agent_name |-> "a", status |-> NULL, ended_at |-> NULL,
     input |-> Undefined,
     steps |-> [i \in 1..Len(cs) |-> StepInput(i, cs[i])]] :
    cs \in UNION { [1..len -> JudgedStepContents] :
                   len \in 0..MaxIngestSteps } }

DoIngestJudged ==
  /\ minted = 0
  /\ \E input \in JudgedIngestInputs :
       Apply("ingestTrace", ingestTrace(DB, input))

\* updateTrace with a patch that has no status key.
DoUpdateError ==
  \E traceId \in TraceIdArgs :
    \E update \in { u \in UpdateTraceInputs : u.status = NULL } :
      Apply("updateTrace", updateTrace(DB, traceId, update))

\* A runAiEval call up to its await: it settles at once, or it hands its
\* request to the judge and suspends.
RunAiEvalBegin(presetNames) ==
  /\ judge.pc = "idle"
  /\ judge.invoked < MaxJudgeCalls
  /\ Cardinality(evals) < MaxEvals
  /\ \E traceId \in TraceIdArgs, presetName \in presetNames :
       \E trace \in getTrace(DB, traceId) :
         LET b == runAiEvalBegin(DB, traceId, presetName, trace)
         IN  IF b.request = NULL
             THEN ApplyStore("runAiEval", b.r) /\ UNCHANGED judge
             ELSE /\ judge' = [pc |-> "awaiting", call |-> b.request[1],
                               invoked |-> judge.invoked + 1,
                               settled |-> "none", wrote |-> FALSE]
                  /\ UNCHANGED <<traces, steps, snapshots, evals, minted,
                                 policies, last>>
  /\ UNCHANGED calls

DoRunAiEvalBegin == RunAiEvalBegin(AiPresetNameArgs)

\* The awaited callLlm settles and the suspended runAiEval runs to its end.
JudgeOutcome(outcomes) ==
  /\ judge.pc = "awaiting"
  /\ \E outcome \in outcomes :
       LET r == runAiEvalResume(DB, judge.call, outcome)
       IN  /\ ApplyStore("runAiEval", r)
           /\ judge' = [pc |-> "idle", invoked |-> judge.invoked,
                        settled |-> IF outcome.kind = "error"
                                      THEN outcome.type ELSE "response",
                        wrote |-> r.ok]
  /\ UNCHANGED calls

DoJudgeOutcome == JudgeOutcome(JudgeOutcomes)

\* The traces the matcher is tried on: steps numbered from 1 on.
MatchIngestInputs ==
  { in \in IngestPlainInputs :
      \A i \in 1..Len(in.steps) : in.steps[i].step_number = i }

DoIngestMatched ==
  /\ minted = 0
  /\ \E input \in MatchIngestInputs :
       Apply("ingestTrace", ingestTrace(DB, input))

\* The policies callers add: a name, which may be the text of a policy id,
\* an action, which may be none of GUARD_ACTIONS, and a pattern.
PolicyNames ==
  {<<"no-delete">>, <<"token-limit">>, generateId("pol", <<"1">>)}

PolicyInputs ==
  [name : PolicyNames, action : {"deny", "bogus"},
   priority : {NULL, Some(100)},
   match_pattern :
     { pt \in MatchPatterns :
         /\ pt.step_type = Some(<<"tool_call">>)
         /\ pt.name_regex = NULL
         /\ pt.input_contains = NULL
         /\ pt.output_contains = NULL }]

\* The policies the matcher is tried on: one name, every pattern.
MatchPolicyInputs ==
  [name : {<<"no-delete">>}, action : {"deny"}, priority : {NULL},
   match_pattern : MatchPatterns]

\* What callers pass to removePolicy: an id or a name in use, or neither.
PolicyIdArgs ==
  Ids(policies) \cup { p.name : p \in policies } \cup {<<"nonexistent">>}

DoAddPolicy ==
  /\ Cardinality(policies) < MaxPolicies
  /\ \E policy \in PolicyInputs : Apply("addPolicy", addPolicy(DB, policy))

DoAddMatchPolicy ==
  \E policy \in MatchPolicyInputs : Apply("addPolicy", addPolicy(DB, policy))

DoRemovePolicy ==
  \E policyId \in PolicyIdArgs :
    Apply("removePolicy", removePolicy(DB, policyId))

DoTestPolicies ==
  \E traceId \in TraceIdArgs :
    Apply("testPolicies", testPolicies(DB, traceId))

\* seedDemoData, while the ids it mints stay within MaxSeedMinted.
DoSeed ==
  /\ minted + Len(scenarios) <= MaxSeedMinted
  /\ Apply("seedDemoData", seedDemoData(DB))

\* The traces that are compared: steps of a valid type with step numbers
\* that go up, not necessarily from 1 and not necessarily without gaps.
DiffIngestInputs ==
  { in \in IngestPlainInputs :
      \A i \in 1..(Len(in.steps) - 1) :
        in.steps[i].step_number < in.steps[i + 1].step_number }

\* Ingest of the left and of the right trace of a comparison.
DoIngestDiffed ==
  /\ minted < DiffSides
  /\ \E input \in DiffIngestInputs :
       Apply("ingestTrace", ingestTrace(DB, input))

DoDiff ==
  \E leftTraceId \in TraceIdArgs, rightTraceId \in TraceIdArgs :
    Apply("diffTraces", diffTraces(DB, leftTraceId, rightTraceId))

\* Ingest into the empty store of a trace whose steps, numbered from 1 on,
\* all carry a snapshot.
DoIngestSnapshots ==
  /\ minted = 0
  /\ \E input \in { in \in MatchIngestInputs :
                       \A i \in 1..Len(in.steps) :
                         in.steps[i].snapshot # NULL } :
       Apply("ingestTrace", ingestTrace(DB, input))

\* The first runAiEval call of a behaviour, under the preset
\* ai-security-audit.
DoRunSecurityAuditOnce ==
  judge.invoked = 0 /\ RunAiEvalBegin({"ai-security-audit"})

\* The judge answers with an audit object, or the call to it fails.
DoJudgeAnswer ==
  JudgeOutcome({ o \in JudgeOutcomes :
                   \/ o.kind = "error" /\ o.type = "network"
                   \/ o.kind = "response"
                      /\ o.text = "{\"risk_level\":\"none\",\"safe\":true}" })

\* runEval under the preset safety-check.
DoRunSafetyEval == RunEval({"safety-check"})

\* appendStep of a step that carries a snapshot.
DoAppendSnapshot ==
  /\ \E traceId \in TraceIdArgs :
       \E input \in { in \in StepInputs : in.snapshot # NULL } :
         Apply("appendStep", appendStep(DB, traceId, input))
  /\ Cardinality(steps') <= MaxSteps

\* The rubrics of one criterion that is expected to match, with the default
\* weight and threshold.
PlainRubrics ==
  [name : {"custom-check"}, threshold : {NULL},
   criteria : { <<c>> : c \in { rc \in RubricCriteria :
                                  rc.weight = NULL /\ rc.expected } }]

DoRunPlainRubric ==
  /\ Cardinality(evals) < MaxEvals
  /\ \E traceId \in TraceIdArgs :
       \E rubric \in PlainRubrics :
         \E trace \in getTrace(DB, traceId) :
           Apply("runCustomRubric",
                 runCustomRubric(DB, traceId, rubric, trace))

DoAppendCheck == \E c \in Callers : AppendCheck(c)

DoAppendTx ==
  /\ \E c \in Callers : AppendTx(c)
  /\ Cardinality(steps') <= MaxSteps

\* The repository under ingest, append, update and fork, with the history of
\* the terminal statuses.
Next ==
  \/ DoIngest /\ Track
  \/ DoAppend /\ Track
  \/ DoUpdate /\ Track
  \/ DoFork /\ Cardinality(steps') <= MaxSteps /\ Track

Spec == Init /\ [][Next]_vars

\* A root trace under append and update.
NextAppend ==
  \/ DoIngestRoot /\ UNCHANGED terminated
  \/ DoAppend /\ UNCHANGED terminated
  \/ DoUpdate /\ UNCHANGED terminated

SpecAppend == Init /\ [][NextAppend]_vars

\* A root trace and one fork of it, under append and update.
NextAppendFork ==
  \/ DoIngestRoot /\ UNCHANGED terminated
  \/ DoAppend /\ UNCHANGED terminated
  \/ DoUpdate /\ UNCHANGED terminated
  \/ DoForkRoot /\ UNCHANGED terminated

SpecAppendFork == Init /\ [][NextAppendFork]_vars

\* A root trace, its forks and the forks of these, under verdicts and delete.
NextDelete ==
  \/ DoIngestRoot /\ UNCHANGED terminated
  \/ DoFork /\ UNCHANGED terminated
  \/ DoCreateEval /\ UNCHANGED terminated
  \/ DoDelete /\ UNCHANGED terminated

SpecDelete == Init /\ [][NextDelete]_vars

\* A root trace, its forks and the forks of these, under update and delete.
NextLineage ==
  \/ DoIngestRoot /\ UNCHANGED terminated
  \/ DoFork /\ UNCHANGED terminated
  \/ DoUpdate /\ UNCHANGED terminated
  \/ DoDelete /\ UNCHANGED terminated

SpecLineage == Init /\ [][NextLineage]_vars

\* A root trace, its forks and the forks of these.
NextFork ==
  \/ DoIngestRoot /\ UNCHANGED terminated
  \/ DoFork /\ UNCHANGED terminated

SpecFork == Init /\ [][NextFork]_vars

\* A root trace and two callers appending to it.
NextConc ==
  \/ DoIngestRoot /\ UNCHANGED terminated
  \/ DoAppendCheck
  \/ DoAppendTx

SpecConc == Init /\ [][NextConc]_vars

\* updateTrace that sets a terminal status, issued on a connection of its
\* own.
DoUpdateTerminal ==
  \E traceId \in TraceIdArgs :
    \E update \in { u \in StatusUpdates :
                      u.status # NULL /\ u.status[1] \in TerminalStatuses } :
      Apply("updateTrace", updateTrace(DB, traceId, update))

\* A root trace, two callers appending to it, and a connection that ends
\* it.
NextAppendUpdate ==
  \/ DoIngestRoot /\ UNCHANGED terminated
  \/ DoAppendCheck
  \/ DoAppendTx
  \/ DoUpdateTerminal /\ UNCHANGED terminated

SpecAppendUpdate == Init /\ [][NextAppendUpdate]_vars
\* What callers that abbreviate an id pass for traceId: the stored ids and
\* their prefixes.
TraceIdPrefixArgs ==
  UNION { { SubSeq(t.id, 1, k) : k \in 1..Len(t.id) } : t \in traces }

\* runEval under the preset safety-check, called with an id or a prefix.
DoRunEvalPrefix ==
  /\ Cardinality(evals) < MaxEvals
  /\ \E traceId \in TraceIdPrefixArgs :
       \E trace \in getTrace(DB, traceId) :
         Apply("runEval", runEval(DB, traceId, "safety-check", trace))

\* runCustomRubric called with an id or a prefix.
DoRunRubricPrefix ==
  /\ Cardinality(evals) < MaxEvals
  /\ \E traceId \in TraceIdPrefixArgs, rubric \in PlainRubrics :
       \E trace \in getTrace(DB, traceId) :
         Apply("runCustomRubric",
               runCustomRubric(DB, traceId, rubric, trace))

\* A runAiEval call under the preset ai-security-audit, called with an id
\* or a prefix, up to its await.
DoRunAiEvalPrefix ==
  /\ judge.pc = "idle"
  /\ judge.invoked < MaxJudgeCalls
  /\ Cardinality(evals) < MaxEvals
  /\ \E traceId \in TraceIdPrefixArgs :
       \E trace \in getTrace(DB, traceId) :
         LET b == runAiEvalBegin(DB, traceId, "ai-security-audit", trace)
         IN  /\ b.request # NULL
             /\ judge' = [pc |-> "awaiting", call |-> b.request[1],
                          invoked |-> judge.invoked + 1,
                          settled |-> "none", wrote |-> FALSE]
  /\ UNCHANGED <<traces, steps, snapshots, evals, minted, policies, last,
                 calls>>

\* A root trace under the evaluators, called with ids and with prefixes.
NextPrefix ==
  \/ DoIngestRoot /\ UNCHANGED terminated
  \/ DoRunEvalPrefix /\ UNCHANGED terminated
  \/ DoRunRubricPrefix /\ UNCHANGED terminated
  \/ DoRunAiEvalPrefix /\ UNCHANGED terminated
  \/ DoJudgeAnswer /\ UNCHANGED terminated

SpecPrefix == Init /\ [][NextPrefix]_vars
\* A root trace, its forks and the forks of these, forked with and without a
\* modified input and a modified context.
NextForkModified ==
  \/ DoIngestRoot /\ UNCHANGED terminated
  \/ DoForkModified /\ UNCHANGED terminated

SpecForkModified == Init /\ [][NextForkModified]_vars

\* A root trace, the verdicts it gets before it is forked, its forks and
\* the forks of these.
NextForkEval ==
  \/ DoIngestRoot /\ UNCHANGED terminated
  \/ DoCreateEvalRoot /\ UNCHANGED terminated
  \/ DoFork /\ UNCHANGED terminated

SpecForkEval == Init /\ [][NextForkEval]_vars

\* Traces under the ids nanoid may return, and getTrace on them.
NextGet ==
  \/ DoIngestNano /\ UNCHANGED terminated
  \/ DoGetTrace

SpecGet == Init /\ [][NextGet]_vars

\* A root trace with verdicts and one fork of it, under updateTrace.
NextUpdate ==
  \/ DoIngestRoot /\ UNCHANGED terminated
  \/ DoCreateEvalRoot /\ UNCHANGED terminated
  \/ DoForkRoot /\ UNCHANGED terminated
  \/ DoUpdatePatch /\ UNCHANGED terminated

SpecUpdate == Init /\ [][NextUpdate]_vars

\* A root trace under the rubric evaluators.
NextRubric ==
  \/ DoIngestRoot /\ UNCHANGED terminated
  \/ DoRunEval /\ UNCHANGED terminated
  \/ DoRunCustomRubric /\ UNCHANGED terminated

SpecRubric == Init /\ [][NextRubric]_vars

\* A trace under the judge evaluator: while a runAiEval call awaits the
\* judge, the trace can be updated or deleted.
NextJudge ==
  \/ DoIngestJudged /\ UNCHANGED terminated
  \/ DoUpdateError /\ UNCHANGED terminated
  \/ DoDelete /\ UNCHANGED terminated
  \/ DoRunAiEvalBegin /\ UNCHANGED terminated
  \/ DoJudgeOutcome /\ UNCHANGED terminated

SpecJudge == Init /\ [][NextJudge]_vars

\* The guardrail policies under add and remove.
NextPolicy ==
  \/ DoAddPolicy /\ UNCHANGED terminated
  \/ DoRemovePolicy /\ UNCHANGED terminated

SpecPolicy == Init /\ [][NextPolicy]_vars

\* A trace and one policy at a time, of any pattern, under the matcher.
NextMatch ==
  \/ DoIngestMatched /\ UNCHANGED terminated
  \/ DoAddMatchPolicy /\ UNCHANGED terminated
  \/ DoRemovePolicy /\ UNCHANGED terminated
  \/ DoTestPolicies /\ UNCHANGED terminated

SpecMatch == Init /\ [][NextMatch]_vars

\* The demo data under seed, deleteTrace and removePolicy.
NextSeed ==
  \/ DoSeed /\ UNCHANGED terminated
  \/ DoDelete /\ UNCHANGED terminated
  \/ DoRemovePolicy /\ UNCHANGED terminated

SpecSeed == Init /\ [][NextSeed]_vars

\* Two traces under diffTraces.
NextDiff ==
  \/ DoIngestDiffed /\ UNCHANGED terminated
  \/ DoDiff /\ UNCHANGED terminated

SpecDiff == Init /\ [][NextDiff]_vars

\* The writers of the store together: ingest, append, fork, delete, the
\* verdict writers, and a runAiEval call that awaits the judge while the
\* other calls run.
NextIntegrity ==
  \/ DoIngestSnapshots /\ UNCHANGED terminated
  \/ DoAppendSnapshot /\ UNCHANGED terminated
  \/ DoForkRoot /\ UNCHANGED terminated
  \/ DoDelete /\ UNCHANGED terminated
  \/ DoCreateEval /\ UNCHANGED terminated
  \/ DoRunSafetyEval /\ UNCHANGED terminated
  \/ DoRunPlainRubric /\ UNCHANGED terminated
  \/ DoRunSecurityAuditOnce /\ UNCHANGED terminated
  \/ DoJudgeAnswer /\ UNCHANGED terminated

SpecIntegrity == Init /\ [][NextIntegrity]_vars

\* ------------------------------------------------------------ properties
StepsOf(db, traceId) == { s \in db.steps : s.trace_id = traceId }

Used(traceId, n) == \E s \in StepsOf(DB, traceId) : s.step_number = n

StatusOf(traceId) == (CHOOSE t \in traces : t.id = traceId).status

Min(a, b) == IF a <= b THEN a ELSE b

\* C1: in every reachable state, appendStep(traceId, input) of a step of a
\* valid step_type whose step_number is not yet used in the trace succeeds
\* exactly when the trace exists with status 'running', and then adds exactly
\* one step row, for that trace and step_number, and returns its id; in every
\* other case the store is left as it was.  On a trace whose status is
\* completed, failed or timeout every appendStep is rejected with
\* invalid_state and no step or snapshot row is inserted.
AppendStepGate ==
  \A traceId \in TraceIdArgs, input \in StepInputs :
    LET r == appendStep(DB, traceId, input)
        running == traceId \in Ids(traces) /\ StatusOf(traceId) = "running"
        terminal == traceId \in Ids(traces)
                    /\ StatusOf(traceId) \in TerminalStatuses
        added == r.db.steps \ steps
    IN  /\ (~ Used(traceId, input.step_number)
            /\ input.step_type \in STEP_TYPES) =>
              /\ r.ok <=> running
              /\ r.ok =>
                   /\ steps \subseteq r.db.steps
                   /\ snapshots \subseteq r.db.snapshots
                   /\ Cardinality(added) = 1
                   /\ \A row \in added :
                        /\ row.id = r.ret
                        /\ row.trace_id = traceId
                        /\ row.step_number = input.step_number
                        /\ row.step_type = input.step_type
                        /\ row.name = input.name
                   /\ r.db.traces = traces
              /\ ~ r.ok => r.db = DB
        /\ terminal =>
              /\ ~ r.ok
              /\ r.err = "invalid_state"
              /\ r.db.steps = steps
              /\ r.db.snapshots = snapshots

\* A step was appended to the trace while it was running (it was inserted
\* after a step with a larger step_number, which an ingest never does), the
\* trace has since timed out, and an appendStep with an unused step_number
\* is now refused.
AppendStepGateWitness ==
  \E t \in traces :
    /\ t.status = "timeout"
    /\ \E s1 \in StepsOf(DB, t.id), s2 \in StepsOf(DB, t.id) :
         s1.id[3] < s2.id[3] /\ s1.step_number > s2.step_number
    /\ \E input \in StepInputs :
         /\ ~ Used(t.id, input.step_number)
         /\ input.step_type \in STEP_TYPES
         /\ ~ appendStep(DB, t.id, input).ok

\* C2: once a trace has had a terminal status, set at ingest or by
\* updateTrace, no later appendStep on that trace succeeds: the last call
\* that succeeded is never an appendStep that added a step to a trace that
\* has had a terminal status.
NoAppendOnceTerminal ==
  ~ ( /\ last.op = "appendStep"
      /\ \E s \in steps : s.id = last.ret /\ s.trace_id \in terminated )

\* C3: no two persisted steps share (trace_id, step_number); an ingestTrace
\* whose steps repeat a step_number, and an appendStep with a step_number
\* already used in the trace, are rejected and leave the store as it was.
StepNumbersUnique ==
  /\ \A s1 \in steps, s2 \in steps :
       (s1.trace_id = s2.trace_id /\ s1.step_number = s2.step_number)
         => s1 = s2
  /\ \A input \in IngestTraceInputs :
       (\E i \in 1..Len(input.steps), j \in 1..Len(input.steps) :
          i # j /\ input.steps[i].step_number = input.steps[j].step_number)
         => LET r == ingestTrace(DB, input)
            IN  ~ r.ok /\ r.db = DB
  /\ \A traceId \in TraceIdArgs, input \in StepInputs :
       Used(traceId, input.step_number)
         => LET r == appendStep(DB, traceId, input)
            IN  ~ r.ok /\ r.db = DB

\* A running trace holds two steps, the second one appended, and an
\* appendStep that repeats one of its step numbers is refused.
StepNumbersUniqueWitness ==
  /\ last.op = "appendStep"
  /\ \E s \in steps :
       /\ s.id = last.ret
       /\ StatusOf(s.trace_id) = "running"
       /\ Cardinality(StepsOf(DB, s.trace_id)) = 2
       /\ \E input \in StepInputs :
            /\ input.step_number = s.step_number
            /\ input.step_type \in STEP_TYPES
            /\ ~ appendStep(DB, s.trace_id, input).ok

\* C4: every persisted step has step_number >= 1, after any sequence of
\* ingestTrace, appendStep and forkTrace calls on the repository, for every
\* step_number a caller passes.
StepNumbersPositive == \A s \in steps : s.step_number >= 1

\* C5: when the appendStep calls of the two callers name the same running
\* trace and the same step_number, unused when each was checked, and the two
\* calls overlap (both passed the status check before both inserts ran, in
\* either order), then once both have returned exactly one of them has
\* succeeded and exactly one step with that step_number is stored.
ConcurrentAppendExactlyOne ==
  LET a == calls["A"]
      b == calls["B"]
  IN  ( /\ a.pc = "done" /\ b.pc = "done"
        /\ a.overlap /\ b.overlap
        /\ a.traceId = b.traceId
        /\ a.input.step_number = b.input.step_number
        /\ a.free /\ b.free )
        => /\ a.ok # b.ok
           /\ Cardinality({ s \in StepsOf(DB, a.traceId) :
                              s.step_number = a.input.step_number }) = 1

\* Both callers have returned from overlapping calls for the same trace and
\* step_number; caller B, whose insert ran second, is the one that failed.
ConcurrentAppendExactlyOneWitness ==
  LET a == calls["A"]
      b == calls["B"]
  IN  /\ a.pc = "done" /\ b.pc = "done"
      /\ a.overlap /\ b.overlap
      /\ a.traceId = b.traceId
      /\ a.input.step_number = b.input.step_number
      /\ a.free /\ b.free
      /\ a.ok /\ ~ b.ok

\* C6: deleteTrace(T) of a stored trace succeeds and leaves no trace row T,
\* no step of T, no snapshot of a step that belonged to T and no verdict of
\* T, while the rows of the other traces and all their steps, snapshots and
\* verdicts stay as they were; deleteTrace of an id that is not stored fails
\* and changes nothing.
DeleteTraceCascades ==
  \A traceId \in TraceIdArgs :
    LET r   == deleteTrace(DB, traceId)
        own == StepsOf(DB, traceId)
    IN  IF traceId \in Ids(traces)
          THEN /\ r.ok
               /\ traceId \notin Ids(r.db.traces)
               /\ StepsOf(r.db, traceId) = {}
               /\ ~ \E sn \in r.db.snapshots : sn.step_id \in Ids(own)
               /\ ~ \E e \in r.db.evals : e.trace_id = traceId
               /\ Ids(r.db.traces) = Ids(traces) \ {traceId}
               /\ r.db.steps = steps \ own
               /\ r.db.snapshots =
                    { sn \in snapshots : sn.step_id \in Ids(steps \ own) }
               /\ r.db.evals = { e \in evals : e.trace_id # traceId }
               /\ \A sn \in r.db.snapshots : sn.step_id \in Ids(r.db.steps)
          ELSE ~ r.ok /\ r.db = DB

\* A deleteTrace has just removed the parent of a fork, a parent that held a
\* step with a snapshot: the fork keeps its copy of the step, the snapshot of
\* that copy and its verdict, and nothing else is stored.
DeleteTraceCascadesWitness ==
  /\ last.op = "deleteTrace"
  /\ last.ret \notin Ids(traces)
  /\ \E u \in traces :
       /\ traces = {u}
       /\ u.forked_from_step # NULL
       /\ steps = StepsOf(DB, u.id)
       /\ \E s \in steps, sn \in snapshots :
            steps = {s} /\ snapshots = {sn} /\ sn.step_id = s.id
       /\ \E e \in evals : e.trace_id = u.id
       /\ deleteTrace(DB, u.id).ok
       /\ ~ deleteTrace(DB, last.ret).ok

\* C7: every persisted trace has parent_trace_id and forked_from_step either
\* both set or both null, after any sequence of ingestTrace, forkTrace,
\* updateTrace and deleteTrace.
LineageBothOrNeither ==
  \A t \in traces : (t.parent_trace_id = NULL) <=> (t.forked_from_step = NULL)

\* C8: a successful forkTrace(P, k) adds exactly one trace row, the one whose
\* id it returns, with parent_trace_id = P, forked_from_step = k and status
\* 'running', whatever the status of P; the rows already stored are kept.
ForkCreatesRunningChild ==
  \A traceId \in TraceIdArgs, fromStep \in FromStepArgs,
     modifiedInput \in ModifiedInputs, modifiedContext \in ModifiedContexts :
    LET r == forkTrace(DB, traceId, fromStep, modifiedInput, modifiedContext)
        new == r.db.traces \ traces
    IN  r.ok =>
          /\ traces \subseteq r.db.traces
          /\ Cardinality(new) = 1
          /\ \A f \in new :
               /\ f.id = r.ret.forked_trace_id
               /\ f.id \notin Ids(traces)
               /\ f.parent_trace_id = Some(traceId)
               /\ f.forked_from_step = Some(fromStep)
               /\ f.status = "running"
          /\ r.ret.original_trace_id = traceId
          /\ r.ret.forked_from_step = fromStep

\* A forkTrace has just made a running fork of a parent whose status is
\* timeout.
ForkCreatesRunningChildWitness ==
  /\ last.op = "forkTrace"
  /\ \E f \in traces, p \in traces :
       /\ f.id = last.ret.forked_trace_id
       /\ p.id = last.ret.original_trace_id
       /\ f.parent_trace_id = Some(p.id)
       /\ f.status = "running"
       /\ p.status = "timeout"

\* C9 as stated: for a parent whose steps have distinct positive step
\* numbers and every accepted k, steps_copied and the number of steps of the
\* fork both equal min(k, number of steps of the parent).
ForkCopiesMinOfKAndCount ==
  \A traceId \in TraceIdArgs, fromStep \in FromStepArgs,
     modifiedInput \in ModifiedInputs, modifiedContext \in ModifiedContexts :
    LET r   == forkTrace(DB, traceId, fromStep, modifiedInput, modifiedContext)
        own == StepsOf(DB, traceId)
    IN  (r.ok /\ \A s \in own : s.step_number >= 1) =>
          /\ r.ret.steps_copied = Min(fromStep, Cardinality(own))
          /\ Cardinality(StepsOf(r.db, r.ret.forked_trace_id))
               = Min(fromStep, Cardinality(own))

\* C9, amended: for every parent and every accepted k, steps_copied and the
\* number of steps of the fork both equal the number of steps of the parent
\* whose step_number is at most k; that number is min(k, number of steps of
\* the parent) when the parent's step numbers are exactly 1..n.
ForkCopiesStepsUpToK ==
  \A traceId \in TraceIdArgs, fromStep \in FromStepArgs,
     modifiedInput \in ModifiedInputs, modifiedContext \in ModifiedContexts :
    LET r   == forkTrace(DB, traceId, fromStep, modifiedInput, modifiedContext)
        own == StepsOf(DB, traceId)
        upTo == Cardinality({ s \in own : s.step_number <= fromStep })
    IN  r.ok =>
          /\ r.ret.steps_copied = upTo
          /\ Cardinality(StepsOf(r.db, r.ret.forked_trace_id)) = upTo
          /\ { s.step_number : s \in own } = 1..Cardinality(own)
               => upTo = Min(fromStep, Cardinality(own))

\* A forkTrace has just copied fewer steps than min(k, number of steps of
\* the parent): the parent's step numbers start above k.
ForkCopiesStepsUpToKWitness ==
  /\ last.op = "forkTrace"
  /\ LET own == StepsOf(DB, last.ret.original_trace_id)
     IN  /\ \A s \in own : s.step_number >= 1
         /\ last.ret.steps_copied
              < Min(last.ret.forked_from_step, Cardinality(own))
         /\ Cardinality(StepsOf(DB, last.ret.forked_trace_id))
              = last.ret.steps_copied

\* The columns of a step row that a fork shares with its parent.
StepFields(s) ==
  [step_number |-> s.step_number, step_type |-> s.step_type,
   name |-> s.name, input |-> s.input, output |-> s.output,
   duration_ms |-> s.duration_ms, tokens_used |-> s.tokens_used,
   model |-> s.model, error |-> s.error, metadata |-> s.metadata]

\* C10: after a successful forkTrace(P, k) the steps of the fork are exactly
\* the steps of P with step_number <= k: one step of the fork per such step
\* of P, with the same step_number, step_type, name, input, output,
\* duration_ms, tokens_used, model, error and metadata, and with an id that
\* no step had before; the steps already stored are kept.
ForkStepsMatchParent ==
  \A traceId \in TraceIdArgs, fromStep \in FromStepArgs,
     modifiedInput \in ModifiedInputs, modifiedContext \in ModifiedContexts :
    LET r   == forkTrace(DB, traceId, fromStep, modifiedInput, modifiedContext)
        fsteps == StepsOf(r.db, r.ret.forked_trace_id)
        psteps == { s \in StepsOf(DB, traceId) : s.step_number <= fromStep }
    IN  r.ok =>
          /\ { StepFields(s) : s \in fsteps } = { StepFields(s) : s \in psteps }
          /\ Cardinality(fsteps) = Cardinality(psteps)
          /\ \A s \in fsteps : s.id \notin Ids(steps)
          /\ r.db.steps = steps \cup fsteps

\* A forkTrace has just copied two steps, one of them with every column
\* filled, into a fork.
ForkStepsMatchParentWitness ==
  /\ last.op = "forkTrace"
  /\ last.ret.steps_copied = 2
  /\ LET fsteps == StepsOf(DB, last.ret.forked_trace_id)
         psteps == StepsOf(DB, last.ret.original_trace_id)
     IN  /\ Cardinality(fsteps) = 2
         /\ \E s \in fsteps : s.output # NULL /\ s.model # NULL
         /\ \A s \in fsteps :
              \E q \in psteps : StepFields(q) = StepFields(s) /\ q.id # s.id


\* The snapshot rows of a step.
SnapshotsOfStep(db, stepId) == { sn \in db.snapshots : sn.step_id = stepId }

\* The columns of a snapshot row that a fork never rewrites.
SnapshotFields(sn) ==
  [context_window |-> sn.context_window, tool_state |-> sn.tool_state,
   token_count |-> sn.token_count]

\* C11: when forkTrace(P, k, _, modified_env) is given a modified_env, the
\* copy of the snapshot of the step with step_number = k has modified_env as
\* its environment, the copy of the snapshot of every step with
\* step_number < k has the environment of the parent's snapshot, and
\* context_window, tool_state and token_count of every copied snapshot are
\* the parent's.
ForkEnvOnlyAtForkPoint ==
  \A traceId \in TraceIdArgs, fromStep \in FromStepArgs,
     modifiedInput \in ModifiedInputs,
     modifiedContext \in ModifiedContexts \ {Undefined} :
    LET r == forkTrace(DB, traceId, fromStep, modifiedInput, modifiedContext)
    IN  r.ok =>
          \A q \in StepsOf(r.db, r.ret.forked_trace_id),
             p \in StepsOf(DB, traceId) :
            q.step_number = p.step_number =>
              \A csn \in SnapshotsOfStep(r.db, q.id),
                 psn \in SnapshotsOfStep(DB, p.id) :
                /\ csn.environment =
                     IF q.step_number = fromStep
                       THEN jsonStr(modifiedContext) ELSE psn.environment
                /\ SnapshotFields(csn) = SnapshotFields(psn)

\* The row of a trace, and the rows that belong to a trace.
TraceRows(db, traceId) == { t \in db.traces : t.id = traceId }

SnapshotsOf(db, traceId) ==
  { sn \in db.snapshots : sn.step_id \in Ids(StepsOf(db, traceId)) }

EvalsOf(db, traceId) == { e \in db.evals : e.trace_id = traceId }

\* C12: forkTrace(P, k, modified_input, modified_env), whether it succeeds
\* or fails, leaves the trace row of P, the steps of P, the snapshots of
\* these steps and the verdicts of P as they were; a call that fails leaves
\* the whole store as it was.
ForkLeavesParentUntouched ==
  \A traceId \in TraceIdArgs, fromStep \in FromStepArgs,
     modifiedInput \in ModifiedInputs, modifiedContext \in ModifiedContexts :
    LET r == forkTrace(DB, traceId, fromStep, modifiedInput, modifiedContext)
    IN  /\ TraceRows(r.db, traceId) = TraceRows(DB, traceId)
        /\ StepsOf(r.db, traceId) = StepsOf(DB, traceId)
        /\ SnapshotsOf(r.db, traceId) = SnapshotsOf(DB, traceId)
        /\ EvalsOf(r.db, traceId) = EvalsOf(DB, traceId)
        /\ ~ r.ok => r.db = DB

\* A forkTrace has just forked a parent that has a step with a snapshot and
\* a verdict; the fork has its own copy of the step and of the snapshot and
\* no verdict.
ForkLeavesParentUntouchedWitness ==
  /\ last.op = "forkTrace"
  /\ LET p == last.ret.original_trace_id
         f == last.ret.forked_trace_id
     IN  /\ TraceRows(DB, p) # {}
         /\ SnapshotsOf(DB, p) # {}
         /\ EvalsOf(DB, p) # {}
         /\ SnapshotsOf(DB, f) # {}
         /\ SnapshotsOf(DB, f) \cap SnapshotsOf(DB, p) = {}
         /\ EvalsOf(DB, f) = {}

\* C13: forkTrace fails, and leaves the store without a new trace, step or
\* snapshot row, when the parent id is not stored, when the parent has no
\* step, when from_step < 1, and when from_step is greater than the largest
\* step_number of the parent.
ForkRejectsBadArguments ==
  \A traceId \in TraceIdArgs, fromStep \in FromStepArgs,
     modifiedInput \in ModifiedInputs, modifiedContext \in ModifiedContexts :
    LET r   == forkTrace(DB, traceId, fromStep, modifiedInput, modifiedContext)
        own == StepsOf(DB, traceId)
    IN  \/ traceId \notin Ids(traces)
        \/ own = {}
        \/ fromStep < 1
        \/ \A s \in own : fromStep > s.step_number
        => /\ ~ r.ok
           /\ r.ret = NULL
           /\ r.db.traces = traces
           /\ r.db.steps = steps
           /\ r.db.snapshots = snapshots

\* A forkTrace has just made a fork with no step; forkTrace of that fork
\* fails for want of steps, and forkTrace of its parent fails with
\* from_step 0, with from_step above the parent's largest step_number, and
\* the stored ids apart, with an id that is not stored.
ForkRejectsBadArgumentsWitness ==
  /\ last.op = "forkTrace"
  /\ LET p == last.ret.original_trace_id
         f == last.ret.forked_trace_id
     IN  /\ StepsOf(DB, p) # {}
         /\ StepsOf(DB, f) = {}
         /\ forkTrace(DB, f, 1, Undefined, Undefined).err = "no_steps"
         /\ forkTrace(DB, p, 0, Undefined, Undefined).err = "invalid_from_step"
         /\ forkTrace(DB, p, MaxStepNo + 1, Undefined, Undefined).err
              = "exceeds_max_step"
         /\ forkTrace(DB, NonexistentId, 1, Undefined, Undefined).err
              = "not_found"

\* The inserts of ingestTrace all pass for this input: its status is one of
\* TRACE_STATUSES, every step_type one of STEP_TYPES, and no step_number is
\* repeated.
IngestInsertsPass(input) ==
  /\ DefaultStatus(input) \in TRACE_STATUSES
  /\ \A i \in 1..Len(input.steps) :
       /\ input.steps[i].step_type \in STEP_TYPES
       /\ \A j \in 1..Len(input.steps) :
            input.steps[i].step_number = input.steps[j].step_number => i = j

\* C14: ingestTrace is atomic.  If the insert of the trace row or of a step
\* row fails the call fails and the store is as before the call: no trace,
\* step or snapshot row of that ingest is persisted.  If it succeeds, the
\* store has gained exactly the trace row, one step row per input step and
\* one snapshot row per input step that carries a snapshot.
IngestTraceAtomic ==
  \A input \in IngestPlainInputs \cup IngestFaultyInputs :
    LET r == ingestTrace(DB, input)
        newSteps == r.db.steps \ steps
        newSnaps == r.db.snapshots \ snapshots
        supplied == { i \in 1..Len(input.steps) :
                        input.steps[i].snapshot # NULL }
    IN  /\ r.ok <=> IngestInsertsPass(input)
        /\ ~ r.ok => r.db = DB
        /\ r.ok =>
             /\ traces \subseteq r.db.traces
             /\ steps \subseteq r.db.steps
             /\ snapshots \subseteq r.db.snapshots
             /\ evals = r.db.evals
             /\ Ids(r.db.traces \ traces) = {r.ret}
             /\ Cardinality(r.db.traces \ traces) = 1
             /\ newSteps = StepsOf(r.db, r.ret)
             /\ Cardinality(newSteps) = Len(input.steps)
             /\ \A i \in 1..Len(input.steps) :
                  \E s \in newSteps :
                    /\ s = StepRow(s.id, r.ret, input.steps[i])
                    /\ (i \in supplied) = (SnapshotsOfStep(r.db, s.id) # {})
             /\ newSnaps = SnapshotsOf(r.db, r.ret)
             /\ Cardinality(newSnaps) = Cardinality(supplied)

\* An ingestTrace has just stored a trace with two steps and the snapshot of
\* one of them, and in this store an ingestTrace whose second step repeats
\* the step_number of its first fails, as does one whose second step has an
\* invalid step_type.
IngestTraceAtomicWitness ==
  /\ last.op = "ingestTrace"
  /\ Cardinality(StepsOf(DB, last.ret)) = 2
  /\ Cardinality(SnapshotsOf(DB, last.ret)) = 1
  /\ \E input \in IngestTraceInputs :
       /\ Len(input.steps) = 2
       /\ input.steps[1].step_number = input.steps[2].step_number
       /\ ~ ingestTrace(DB, input).ok
  /\ \E input \in IngestFaultyInputs :
       /\ Len(input.steps) = 2
       /\ input.status = NULL
       /\ input.steps[1].snapshot # NULL
       /\ ~ ingestTrace(DB, input).ok

\* p is made of the first characters of id.
IsPrefix(p, id) == Len(p) <= Len(id) /\ SubSeq(id, 1, Len(p)) = p

\* C15: for every stored trace id and every non-empty prefix p of it that no
\* other stored trace id starts with, getTrace(p) returns the trace with
\* that id, with the steps and verdicts that getTrace of the full id returns.
GetTraceResolvesUniquePrefix ==
  \A t \in traces : \A k \in 1..Len(t.id) :
    LET p == SubSeq(t.id, 1, k)
    IN  (\A u \in traces : u.id # t.id => ~ IsPrefix(p, u.id))
          => /\ \A res \in getTrace(DB, p) :
                  res # NULL /\ res.trace.id = t.id
             /\ getTrace(DB, p) = getTrace(DB, t.id)

\* C16: updateTrace(id, patch) writes only the keys of the patch, on the
\* trace id only: the other columns of that trace, the other traces, the
\* steps, the snapshots and the verdicts are as before, and the row as it
\* now is is returned; with an empty patch the store is as before and the
\* stored row is returned; for an id that is not stored the call fails and
\* the store is as before.
UpdateTraceWritesOnlyPatch ==
  \A traceId \in TraceIdArgs, update \in UpdateTraceInputs :
    LET r == updateTrace(DB, traceId, update)
    IN  IF traceId \notin Ids(traces) THEN ~ r.ok /\ r.db = DB
        ELSE
          LET old == CHOOSE t \in traces : t.id = traceId
          IN  /\ r.ok
              /\ r.db.steps = steps
              /\ r.db.snapshots = snapshots
              /\ r.db.evals = evals
              /\ r.db.minted = minted
              /\ traces \ {old} \subseteq r.db.traces
              /\ Cardinality(r.db.traces) = Cardinality(traces)
              /\ \E new \in r.db.traces :
                   /\ new.id = traceId
                   /\ new.status = IF update.status = NULL THEN old.status
                                   ELSE update.status[1]
                   /\ new.error = IF update.error = NULL THEN old.error
                                  ELSE update.error
                   /\ [new EXCEPT !.status = old.status,
                                  !.error = old.error] = old
                   /\ r.ret = rowToTrace(new)
              /\ (update.status = NULL /\ update.error = NULL)
                   => r.db = DB /\ r.ret = rowToTrace(old)

\* An updateTrace has just returned the row of a forked trace whose error it
\* had set earlier and whose status it has now set, in a store that holds
\* the parent with another status and no error, steps, a snapshot and a
\* verdict.
UpdateTraceWritesOnlyPatchWitness ==
  /\ last.op = "updateTrace"
  /\ last.ret.error = Some("oops")
  /\ last.ret.status = "completed"
  /\ last.ret.parent_trace_id # NULL
  /\ \E t \in traces :
       /\ rowToTrace(t) = last.ret
       /\ updateTrace(DB, t.id, [status |-> NULL, error |-> NULL]).ret
            = last.ret
  /\ \E p \in traces :
       /\ Some(p.id) = last.ret.parent_trace_id
       /\ p.error = NULL
       /\ p.status = "failed"
       /\ EvalsOf(DB, p.id) # {}
       /\ SnapshotsOf(DB, p.id) # {}
  /\ ~ updateTrace(DB, NonexistentId, [status |-> NULL, error |-> NULL]).ok

\* The threshold recorded in the details of a rubric verdict.
ThresholdOf(details) ==
  CHOOSE threshold \in {667, 700, 800} : DetailsText(threshold) = details

\* C17: every verdict written by runEval or runCustomRubric has
\* 0 <= score <= 1, whatever the trace, the weights of the criteria and the
\* threshold; when the weights of the criteria sum to 0 the score is 0.
RubricScoreInUnitInterval ==
  /\ \A e \in evals : 0 <= e.score /\ e.score <= 1000
  /\ \A traceId \in Ids(traces), rubric \in Rubrics :
       \A trace \in getTrace(DB, traceId) :
         LET r == runCustomRubric(DB, traceId, rubric, trace)
             weights == [i \in 1..Len(rubric.criteria) |->
                           [score |-> 0,
                            weight |-> OrElse(rubric.criteria[i].weight, 1)]]
         IN  (r.ok /\ TotalWeight(weights) = 0) =>
               \A e \in r.db.evals \ evals : e.score = 0

\* C18: every verdict V written by runEval or runCustomRubric has
\* V.passed = (V.score >= V.details.threshold), V.score being the stored
\* score, the weighted mean rounded to three decimals.
RubricPassedMatchesStoredScore ==
  \A e \in evals : (e.passed = 1) <=> (e.score >= ThresholdOf(e.details))

\* A trace with no error of its own and no error step.
CleanTrace(trace) ==
  /\ trace.trace.error = NULL
  /\ \A i \in 1..Len(trace.steps) : trace.steps[i].step_type # "error"

\* C19: for a judge preset that has an applicable function and a stored
\* trace, named by its id, that the function rejects (no error on the trace
\* and no error step), runAiEval settles before its await without handing
\* a request to the judge, succeeds, keeps every verdict there was and adds
\* exactly one: a verdict on that trace under the preset's name with score
\* 1.0, passed true and the skipped details, which it returns.
AiEvalSkipsWithoutJudge ==
  \A traceId \in Ids(traces), presetName \in AI_PRESET_NAMES :
    \A trace \in getTrace(DB, traceId) :
      (AI_PRESETS[presetName].applicable /\ CleanTrace(trace)) =>
        LET b   == runAiEvalBegin(DB, traceId, presetName, trace)
            new == b.r.db.evals \ evals
        IN  /\ b.request = NULL
            /\ b.r.ok
            /\ evals \subseteq b.r.db.evals
            /\ Cardinality(new) = 1
            /\ \A e \in new :
                 /\ e.id = b.r.ret
                 /\ e.trace_id = traceId
                 /\ e.evaluator_type = "llm_judge"
                 /\ e.evaluator_name = presetName
                 /\ e.score = 1000
                 /\ e.passed = 1
                 /\ e.details = SkippedDetails

\* A runAiEval call has returned the skipped verdict it wrote on a clean
\* trace, and no request has gone to the judge.
AiEvalSkipsWithoutJudgeWitness ==
  /\ last.op = "runAiEval"
  /\ judge.invoked = 0
  /\ \E e \in evals :
       /\ e.id = last.ret
       /\ e.details = SkippedDetails
       /\ e.score = 1000
       /\ \A trace \in getTrace(DB, e.trace_id) :
            trace # NULL /\ CleanTrace(trace)

\* The failures of the judge that the caller of runAiEval sees.
JudgeFailures == {"network", "auth", "rate_limit", "server"}

\* C20: when the callLlm that a runAiEval call awaits settles with a
\* network, auth, rate_limit or server failure, the call fails with that
\* failure and leaves the store, its verdicts included, as it is; and a
\* call that hands a request to the judge has written nothing by the time
\* it suspends, so its verdict is written only once a response is there.
JudgeFailureWritesNoVerdict ==
  /\ judge.pc = "awaiting" =>
       \A outcome \in JudgeOutcomes :
         LET r == runAiEvalResume(DB, judge.call, outcome)
         IN  /\ (outcome.kind = "error" /\ outcome.type \in JudgeFailures) =>
                  ~ r.ok /\ r.err = outcome.type /\ r.db = DB
             /\ r.db.evals # evals => outcome.kind = "response"
  /\ \A traceId \in TraceIdArgs, presetName \in AiPresetNameArgs :
       \A trace \in getTrace(DB, traceId) :
         LET b == runAiEvalBegin(DB, traceId, presetName, trace)
         IN  b.request # NULL => b.r.db = DB

\* A request went to the judge, the judge failed, and the trace that was
\* to be judged is stored without a verdict.
JudgeFailureWritesNoVerdictWitness ==
  /\ judge.pc = "idle"
  /\ judge.settled \in JudgeFailures
  /\ traces # {}
  /\ evals = {}

\* The condition that the key of a pattern puts on a step.
KeyHolds(key, value, step) ==
  CASE key = "step_type" -> <<step.step_type>> = value
    [] key = "name_contains" ->
         Includes(toLowerCase(StepName(step)), toLowerCase(value))
    [] key = "name_regex" ->
         /\ GuardSafeRegex(value) # NULL
         /\ GuardRegexTest(value, StepName(step))
    [] key = "input_contains" ->
         Includes(toLowerCase(StepInputJson(step)), toLowerCase(value))
    [] key = "output_contains" ->
         Includes(toLowerCase(StepOutputJson(step)), toLowerCase(value))

KeysOf(pattern) == { k \in DOMAIN pattern : pattern[k] # NULL }

\* C21: for every stored trace with steps, testPolicies returns and reports
\* a stored policy as matching a step exactly when the policy is enabled,
\* its match_pattern has at least one of the five keys, and the condition
\* of every key it has holds for the step.
TestPoliciesMatchesByKeys ==
  \A t \in traces :
    LET r == testPolicies(DB, t.id)
    IN  StepsOf(DB, t.id) # {} =>
          /\ r.ok
          /\ \A i \in 1..Len(r.ret) : \A p \in policies :
               LET step == CHOOSE s \in steps : s.id = r.ret[i].step
               IN  (p.id \in { m.policy : m \in r.ret[i].matches })
                     <=> /\ p.enabled = 1
                         /\ KeysOf(p.match_pattern) # {}
                         /\ \A k \in KeysOf(p.match_pattern) :
                              KeyHolds(k, p.match_pattern[k][1], step)

\* C22: no two stored policies have the same name, and addPolicy with a
\* name that a stored policy has fails and leaves the store as it is.
PolicyNamesUnique ==
  /\ \A p, q \in policies : p.name = q.name => p = q
  /\ \A policy \in PolicyInputs :
       (\E p \in policies : p.name = policy.name) =>
         LET r == addPolicy(DB, policy)
         IN  ~ r.ok /\ r.db = DB

\* A policy has been added, and an addPolicy with its name and a valid
\* action is refused.
PolicyNamesUniqueWitness ==
  /\ last.op = "addPolicy"
  /\ \E p \in policies :
       /\ p.id = last.ret.id
       /\ \E policy \in PolicyInputs :
            /\ policy.name = p.name
            /\ policy.action \in GUARD_ACTIONS
            /\ ~ addPolicy(DB, policy).ok

\* C29: removePolicy(x), for x the id or the name of a stored policy,
\* succeeds and deletes exactly one policy, whose id or name is x, leaving
\* the others as they are; for any other x it fails and changes nothing.
RemovePolicyAtMostOne ==
  \A x \in PolicyIdArgs :
    LET r    == removePolicy(DB, x)
        gone == policies \ r.db.policies
    IN  IF \E p \in policies : p.id = x \/ p.name = x
        THEN /\ r.ok
             /\ r.db = [DB EXCEPT !.policies = policies \ gone]
             /\ Cardinality(gone) = 1
             /\ \A p \in gone : p.id = x \/ p.name = x
        ELSE ~ r.ok /\ r.db = DB

\* C23: when seedDemoData fails, the store it leaves holds the same traces,
\* steps, snapshots and policies as the store it was called on.
SeedDemoDataAtomic ==
  LET r == seedDemoData(DB)
  IN  ~ r.ok =>
        /\ r.db.traces = traces
        /\ r.db.steps = steps
        /\ r.db.snapshots = snapshots
        /\ r.db.policies = policies

\* The steps of a trace in step_number order.
OrderedSteps(traceId) == OrderByStepNumber(StepsOf(DB, traceId))

\* The fields diffTraces compares are the same in two step rows.
SameCompared(l, r) ==
  /\ l.step_type = r.step_type
  /\ l.name = r.name
  /\ l.input = r.input
  /\ l.output = r.output

\* C24: diffTraces returns with the store as it is; when the two traces
\* have the same number of steps and, position by position in step_number
\* order, the same step_type, name, stored input text and stored output
\* text, divergence_step is null and diffs is empty; so it is for a trace
\* against itself.
DiffOfEqualTracesEmpty ==
  \A a \in TraceIdArgs, b \in TraceIdArgs :
    LET r == diffTraces(DB, a, b)
        L == OrderedSteps(a)
        R == OrderedSteps(b)
    IN  /\ r.ok
        /\ r.db = DB
        /\ (/\ Len(L) = Len(R)
            /\ \A i \in 1..Len(L) : SameCompared(L[i], R[i]))
             => r.ret.divergence_step = NULL /\ r.ret.diffs = <<>>
        /\ a = b => r.ret.divergence_step = NULL /\ r.ret.diffs = <<>>

\* diffTraces has compared two different stored traces that have steps and
\* has found no difference.
DiffOfEqualTracesEmptyWitness ==
  /\ last.op = "diffTraces"
  /\ last.ret.left_trace_id # last.ret.right_trace_id
  /\ last.ret.left_trace_id \in Ids(traces)
  /\ last.ret.right_trace_id \in Ids(traces)
  /\ last.ret.left_step_count > 0
  /\ last.ret.right_step_count = last.ret.left_step_count
  /\ last.ret.divergence_step = NULL
  /\ last.ret.diffs = <<>>

\* The step numbers at which two traces differ: a number that one trace
\* alone has a step at, or at which their steps differ in a compared field.
DifferingStepNumbers(a, b) ==
  { n \in { s.step_number : s \in StepsOf(DB, a) \cup StepsOf(DB, b) } :
      LET l == { s \in StepsOf(DB, a) : s.step_number = n }
          r == { s \in StepsOf(DB, b) : s.step_number = n }
      IN  \/ l = {}
          \/ r = {}
          \/ \E x \in l, y \in r : ~ SameCompared(x, y) }

\* C25: the divergence_step of diffTraces(A, B) is the least step number at
\* which A and B differ, and null when there is none.
DivergenceIsSmallestDifference ==
  \A a \in Ids(traces), b \in Ids(traces) :
    LET d == diffTraces(DB, a, b).ret.divergence_step
        D == DifferingStepNumbers(a, b)
    IN  IF D = {} THEN d = NULL
        ELSE d # NULL /\ d[1] \in D /\ \A n \in D : d[1] <= n

\* C30: diffTraces(B, A) has the divergence_step and the number of diffs of
\* diffTraces(A, B), and its i-th diff is the i-th diff of diffTraces(A, B)
\* with the same step_number, left_value and right_value swapped, and
\* missing_left and missing_right exchanged.
DiffSymmetric ==
  \A a \in Ids(traces), b \in Ids(traces) :
    LET ab == diffTraces(DB, a, b).ret
        ba == diffTraces(DB, b, a).ret
        Swapped(field) ==
          CASE field = "missing_left" -> "missing_right"
            [] field = "missing_right" -> "missing_left"
            [] OTHER -> field
    IN  /\ ba.divergence_step = ab.divergence_step
        /\ Len(ba.diffs) = Len(ab.diffs)
        /\ \A i \in 1..Len(ab.diffs) :
             /\ ba.diffs[i].step_number = ab.diffs[i].step_number
             /\ ba.diffs[i].field = Swapped(ab.diffs[i].field)
             /\ ba.diffs[i].left_value = ab.diffs[i].right_value
             /\ ba.diffs[i].right_value = ab.diffs[i].left_value

\* C26: every step is a step of a stored trace, every snapshot a snapshot
\* of a stored step, and every verdict a verdict on a stored trace.
ReferentialIntegrity ==
  /\ \A s \in steps : s.trace_id \in Ids(traces)
  /\ \A sn \in snapshots : sn.step_id \in Ids(steps)
  /\ \A e \in evals : e.trace_id \in Ids(traces)

\* The judge has answered a runAiEval call whose trace was deleted while
\* the call awaited the answer: the call wrote no verdict, and the store
\* holds neither the trace nor its steps.
ReferentialIntegrityWitness ==
  /\ judge.pc = "idle"
  /\ judge.settled = "response"
  /\ ~ judge.wrote
  /\ minted > 0
  /\ traces = {}
  /\ steps = {}

\* C27: appendStep's status check and its insert act as one step against an
\* updateTrace on another connection: no step is inserted into a trace whose
\* stored status is not running at the moment of the insert.  While the
\* latest operation that succeeded is an appendStep, no row of the store
\* has changed since its insert, so the trace of the step it returned is
\* stored with the status it had at the insert.
AppendStepInsertsIntoRunning ==
  \A s \in steps :
    (last.op = "appendStep" /\ s.id = last.ret)
      => \E t \in traces : t.id = s.trace_id /\ t.status = "running"

\* The call r succeeded and wrote a verdict of the trace id: a new row with
\* trace_id = id, which getTrace(id) returns among the verdicts.
VerdictPersisted(r, id) ==
  /\ r.ok
  /\ \E e \in r.db.evals \ evals :
       /\ e.id = r.ret
       /\ e.trace_id = id
       /\ \A res \in getTrace(r.db, id) :
            res # NULL /\ rowToEval(e) \in res.evals

\* C28: when runEval, runCustomRubric or runAiEval is called with an id
\* prefix that getTrace resolves to the trace T, the call succeeds and the
\* verdict is stored with trace_id = T.id and appears in
\* getTrace(T.id).evals.  (For runAiEval: the judge answers with a text.)
EvalByPrefixPersists ==
  \A traceId \in TraceIdPrefixArgs :
    \A trace \in getTrace(DB, traceId) :
      trace # NULL =>
        /\ \A presetName \in PRESET_NAMES :
             VerdictPersisted(runEval(DB, traceId, presetName, trace),
                              trace.trace.id)
        /\ \A rubric \in PlainRubrics :
             VerdictPersisted(runCustomRubric(DB, traceId, rubric, trace),
                              trace.trace.id)
        /\ \A presetName \in AI_PRESET_NAMES :
             LET b == runAiEvalBegin(DB, traceId, presetName, trace)
             IN  IF b.request = NULL
                 THEN VerdictPersisted(b.r, trace.trace.id)
                 ELSE \A text \in ResponseTexts :
                        VerdictPersisted(
                          runAiEvalResume(b.r.db, b.request[1],
                                          [kind |-> "response",
                                           text |-> text]),
                          trace.trace.id)

\* The same for the calls that pass the whole id of a stored trace.
EvalByIdPersists ==
  \A traceId \in Ids(traces) :
    \A trace \in getTrace(DB, traceId) :
      /\ \A presetName \in PRESET_NAMES :
           VerdictPersisted(runEval(DB, traceId, presetName, trace),
                            traceId)
      /\ \A rubric \in PlainRubrics :
           VerdictPersisted(runCustomRubric(DB, traceId, rubric, trace),
                            traceId)
====
